---- MODULE Spec2Model ----
(***************************************************************************)
(* Model of the typed API access layer of monica-mcp:                      *)
(*   - the merge-before-update operations of MonicaClient (updateCall,     *)
(*     updateReminder, updateTask, updateNote) with the payload merge and  *)
(*     request-body builders they use;                                     *)
(*   - the name resolvers of utils/resolvers.ts (paginated scans);         *)
(*   - MonicaClient.request: one fetch under a timer, the reading and      *)
(*     parsing of the body, the errors thrown and what is logged;          *)
(*   - the client in use: its constructor and headers, the operations that *)
(*     check their arguments or choose a path before they call request;    *)
(*   - the tool handlers that call a resolver before they create a record. *)
(* JavaScript values are tagged records, strings are sequences of          *)
(* one-character strings, so that slice, trim and toLowerCase are computed *)
(* and not assumed.                                                        *)
(***************************************************************************)
EXTENDS Integers, Sequences, FiniteSets, TLC

VARIABLES
    entity,   \* the kind of record the update invocations of this run work on
    store,    \* the server's records of that kind, by identifier
    upd,      \* the update invocations: position, arguments, fetched record, outcome
    wire,     \* the requests issued, in order
    catalog,  \* the server's list behind a resolver scan
    scan,     \* the resolver invocation
    call,     \* the invocation of MonicaClient.request: position, timer, outcome
    other,    \* a second resolver invocation, suspended while the first one runs
    tool      \* the tool handler that called the resolver: position, result

vars == <<entity, store, upd, wire, catalog, scan, call, other, tool>>

(***************************************************************************)
(* JavaScript values                                                       *)
(***************************************************************************)
Undef == [t |-> "undefined"]

Null == [t |-> "null"]

Num(n) == [t |-> "number", v |-> n]

Str(s) == [t |-> "string", v |-> s]

Bool(b) == [t |-> "boolean", v |-> b]

\* `x === undefined || x === null`, the test behind `??`
Nullish(x) == x.t \in {"undefined", "null"}

\* JavaScript truthiness of the value kinds the model uses
Falsy(x) ==
    \/ Nullish(x)
    \/ x.t = "number" /\ x.v = 0
    \/ x.t = "string" /\ x.v = <<>>
    \/ x.t = "boolean" /\ x.v = FALSE

Truthy(x) == ~Falsy(x)

\* a ?? b
Coalesce(a, b) == IF Nullish(a) THEN b ELSE a

toNull(value) == Coalesce(value, Null)

Min(a, b) == IF a < b THEN a ELSE b

\* String.prototype.slice(0, n) on a string value
SliceTo(x, n) == Str(SubSeq(x.v, 1, Min(n, Len(x.v))))

\* the length of the date prefix the merges keep: called_at.slice(0, 10)
DateLen == 10

Return(value) == [ok |-> TRUE, value |-> value]

Throw(class, message) == [ok |-> FALSE, error |-> [class |-> class, message |-> message]]

(***************************************************************************)
(* Sample strings                                                          *)
(***************************************************************************)
sDate1Long == <<"2","0","2","4","-","0","1","-","0","1","T","0","9",":","3","0",":","0","0","Z">>

sDate1 == <<"2","0","2","4","-","0","1","-","0","1">>

sDate2 == <<"2","0","2","5","-","0","6","-","3","0">>

sA == <<"A">>

sB == <<"B">>

sC == <<"C">>

sD == <<"D">>

sHi == <<"h","i">>

sWeek == <<"w","e","e","k">>

sYear == <<"y","e","a","r">>

sOpen == <<"o","p","e","n">>

sCompleted == <<"c","o","m","p","l","e","t","e","d">>

(***************************************************************************)
(* Request-body builders and payload merges (MonicaClient.ts)              *)
(***************************************************************************)
buildTaskRequestBody(payload) ==
    [title |-> payload.title,
     description |-> toNull(payload.description),
     completed |-> IF payload.status = Str(sCompleted) THEN Num(1) ELSE Num(0),
     completed_at |-> toNull(payload.completedAt),
     contact_id |-> payload.contactId]

buildCallRequestBody(payload) ==
    [contact_id |-> payload.contactId,
     called_at |-> payload.calledAt,
     content |-> toNull(Coalesce(payload.content, Null))]

buildReminderRequestBody(payload) ==
    [title |-> payload.title,
     description |-> toNull(Coalesce(payload.description, Null)),
     next_expected_date |-> payload.nextExpectedDate,
     frequency_type |-> payload.frequencyType,
     frequency_number |-> Coalesce(payload.frequencyNumber, Null),
     contact_id |-> payload.contactId]

\* mutant: the required-date check is missing
mergeCallPayloadUnchecked(existing, patch) ==
    Return([contactId |-> Coalesce(patch.contactId, existing.contact_id),
            calledAt |-> Coalesce(patch.calledAt,
                                  IF Truthy(existing.called_at)
                                  THEN SliceTo(existing.called_at, DateLen)
                                  ELSE Undef),
            content |-> IF patch.content = Undef THEN existing.content ELSE patch.content])

\* mutant: content merged with ?? like the other nullable fields
mergeCallPayloadCoalesce(existing, patch) ==
    LET calledAt == Coalesce(patch.calledAt,
                             IF Truthy(existing.called_at)
                             THEN SliceTo(existing.called_at, DateLen)
                             ELSE Undef)
    IN  IF Falsy(calledAt)
        THEN Throw("Error", "calledAt is required to update a call.")
        ELSE Return([contactId |-> Coalesce(patch.contactId, existing.contact_id),
                     calledAt |-> calledAt,
                     content |-> Coalesce(patch.content, existing.content)])

mergeCallPayload(existing, patch) ==
    LET calledAt == Coalesce(patch.calledAt,
                             IF Truthy(existing.called_at)
                             THEN SliceTo(existing.called_at, DateLen)
                             ELSE Undef)
    IN  IF Falsy(calledAt)
        THEN Throw("Error", "calledAt is required to update a call.")
        ELSE Return([contactId |-> Coalesce(patch.contactId, existing.contact_id),
                     calledAt |-> calledAt,
                     content |-> IF patch.content = Undef
                                 THEN existing.content
                                 ELSE patch.content])

mergeReminderPayload(existing, patch) ==
    LET nextExpectedDate == Coalesce(patch.nextExpectedDate,
                                     IF Truthy(existing.next_expected_date)
                                     THEN SliceTo(existing.next_expected_date, DateLen)
                                     ELSE Undef)
    IN  IF Falsy(nextExpectedDate)
        THEN Throw("Error", "nextExpectedDate is required to update a reminder.")
        ELSE Return([title |-> Coalesce(patch.title, existing.title),
                     description |-> IF patch.description = Undef
                                     THEN existing.description
                                     ELSE patch.description,
                     nextExpectedDate |-> nextExpectedDate,
                     frequencyType |-> Coalesce(patch.frequencyType, existing.frequency_type),
                     frequencyNumber |-> Coalesce(Coalesce(patch.frequencyNumber,
                                                           existing.frequency_number), Null),
                     contactId |-> Coalesce(patch.contactId, existing.contact_id)])

mergeTaskPayload(existing, patch) ==
    LET contactId == Coalesce(patch.contactId, existing.contact_id)
    IN  IF Falsy(contactId)
        THEN Throw("Error", "contactId is required to update a task.")
        ELSE Return([title |-> Coalesce(patch.title, existing.title),
                     description |-> Coalesce(Coalesce(patch.description,
                                                       existing.description), Null),
                     status |-> Coalesce(patch.status,
                                         IF Truthy(existing.completed)
                                         THEN Str(sCompleted) ELSE Str(sOpen)),
                     completedAt |-> Coalesce(Coalesce(patch.completedAt,
                                                       existing.completed_at), Null),
                     contactId |-> contactId])

\* mutant: the body is built from the patch alone, nothing is carried forward
buildNoteRequestBodyPatchOnly(existing, patch) ==
    LET contactId == Coalesce(patch.contactId, existing.contact_id)
    IN  IF Falsy(contactId)
        THEN Throw("Error", "contactId is required to update a note.")
        ELSE Return([contact_id |-> contactId,
                     body |-> patch.body,
                     is_favorited |-> IF Truthy(patch.isFavorited) THEN Num(1) ELSE Num(0)])

buildNoteRequestBody(existing, patch) ==
    LET contactId == Coalesce(patch.contactId, existing.contact_id)
    IN  IF Falsy(contactId)
        THEN Throw("Error", "contactId is required to update a note.")
        ELSE Return([contact_id |-> contactId,
                     body |-> Coalesce(patch.body, existing.body),
                     is_favorited |-> IF Truthy(Coalesce(patch.isFavorited,
                                                         existing.is_favorited))
                                      THEN Num(1) ELSE Num(0)])

\* JSON.stringify(body): a property whose value is undefined is left out
JsonStringify(body) ==
    [k \in {f \in DOMAIN body : body[f] # Undef} |-> body[k]]

(***************************************************************************)
(* Strings: trim, toLowerCase, includes                                     *)
(***************************************************************************)
Whitespace == {" ", "\t", "\n"}

UpperLetters ==
    <<"A","B","C","D","E","F","G","H","I","J","K","L","M",
      "N","O","P","Q","R","S","T","U","V","W","X","Y","Z">>

LowerLetters ==
    <<"a","b","c","d","e","f","g","h","i","j","k","l","m",
      "n","o","p","q","r","s","t","u","v","w","x","y","z">>

LowerChar(c) ==
    IF \E k \in 1..Len(UpperLetters) : UpperLetters[k] = c
    THEN LowerLetters[CHOOSE k \in 1..Len(UpperLetters) : UpperLetters[k] = c]
    ELSE c

SetMin(S) == CHOOSE x \in S : \A y \in S : x <= y

SetMax(S) == CHOOSE x \in S : \A y \in S : x >= y

\* String.prototype.trim on a sequence of characters
Trim(s) ==
    LET ink == {k \in 1..Len(s) : s[k] \notin Whitespace}
    IN  IF ink = {} THEN <<>> ELSE SubSeq(s, SetMin(ink), SetMax(ink))

\* String.prototype.toLowerCase
ToLowerCase(s) == [k \in 1..Len(s) |-> LowerChar(s[k])]

\* String.prototype.includes
Includes(s, t) ==
    \E k \in 0..(Len(s) - Len(t)) : SubSeq(s, k + 1, k + Len(t)) = t

\* mutant: the value is lower-cased but not trimmed
normalizeLookupValueNoTrim(value) == ToLowerCase(value)

normalizeLookupValue(value) == ToLowerCase(Trim(value))

(***************************************************************************)
(* Name resolvers (utils/resolvers.ts).  The part of each resolver before  *)
(* its loop gives Return(id), Throw(error) or Scan(target).                *)
(***************************************************************************)
ScanKinds == {"gender", "country", "contactFieldType", "activityType", "relationshipType"}

Scan(targetName, targetIso) ==
    [ok |-> TRUE, target |-> [name |-> targetName, iso |-> targetIso]]

\* typeof x === 'number'
IsNumber(x) == x.t = "number"

\* mutant: the identifier is tested for truthiness, so 0 counts as not given
resolveGenderIdTruthyId(genderId, genderName) ==
    IF Truthy(genderId) THEN Return(genderId)
    ELSE IF Falsy(genderName) THEN Return(Undef)
    ELSE Scan(Str(normalizeLookupValue(genderName.v)), Undef)

\* mutant: gender is required, as the other lookups are
resolveGenderIdRequired(genderId, genderName) ==
    IF IsNumber(genderId) THEN Return(genderId)
    ELSE IF Falsy(genderName) THEN Throw("Error", "Provide genderId or genderName.")
    ELSE Scan(Str(normalizeLookupValue(genderName.v)), Undef)

resolveGenderId(genderId, genderName) ==
    IF IsNumber(genderId) THEN Return(genderId)
    ELSE IF Falsy(genderName) THEN Return(Undef)
    ELSE Scan(Str(normalizeLookupValue(genderName.v)), Undef)

resolveCountryId(countryId, countryIso, countryName) ==
    LET iso == IF Nullish(countryIso) THEN Undef ELSE Str(Trim(countryIso.v))
        name == IF Nullish(countryName) THEN Undef ELSE Str(Trim(countryName.v))
    IN  IF Truthy(countryId) THEN Return(countryId)
        ELSE IF Falsy(iso) /\ Falsy(name) THEN Return(Null)
        ELSE Scan(IF Nullish(name) THEN Undef ELSE Str(ToLowerCase(name.v)),
                  IF Nullish(iso) THEN Undef ELSE Str(ToLowerCase(iso.v)))

resolveContactFieldTypeId(contactFieldTypeId, contactFieldTypeName) ==
    IF IsNumber(contactFieldTypeId) THEN Return(contactFieldTypeId)
    ELSE IF Falsy(contactFieldTypeName)
         THEN Throw("Error", "Provide contactFieldTypeId or contactFieldTypeName.")
         ELSE Scan(Str(normalizeLookupValue(contactFieldTypeName.v)), Undef)

resolveActivityTypeId(activityTypeId, activityTypeName) ==
    IF IsNumber(activityTypeId) THEN Return(activityTypeId)
    ELSE IF Falsy(activityTypeName)
         THEN Throw("Error", "Provide activityTypeId or activityTypeName.")
         ELSE Scan(Str(normalizeLookupValue(activityTypeName.v)), Undef)

resolveRelationshipTypeId(relationshipTypeId, relationshipTypeName) ==
    IF IsNumber(relationshipTypeId) THEN Return(relationshipTypeId)
    ELSE IF Falsy(relationshipTypeName)
         THEN Throw("Error", "Provide relationshipTypeId or relationshipTypeName.")
         ELSE Scan(Str(normalizeLookupValue(relationshipTypeName.v)), Undef)

Resolve(kind, args) ==
    CASE kind = "gender" -> resolveGenderId(args.id, args.name)
      [] kind = "country" -> resolveCountryId(args.id, args.iso, args.name)
      [] kind = "contactFieldType" -> resolveContactFieldTypeId(args.id, args.name)
      [] kind = "activityType" -> resolveActivityTypeId(args.id, args.name)
      [] kind = "relationshipType" -> resolveRelationshipTypeId(args.id, args.name)

\* mutant: a country is compared with a target also when none was supplied
MatchesUnguarded(kind, entry, target) ==
    IF kind = "country"
    THEN \/ Str(ToLowerCase(entry.iso.v)) = target.iso
         \/ Str(ToLowerCase(entry.name.v)) = target.name
    ELSE Str(normalizeLookupValue(entry.name.v)) = target.name

\* the predicate each resolver hands to find()
Matches(kind, entry, target) ==
    IF kind = "country"
    THEN \/ Truthy(target.iso) /\ Str(ToLowerCase(entry.iso.v)) = target.iso
         \/ Truthy(target.name) /\ Str(ToLowerCase(entry.name.v)) = target.name
    ELSE Str(normalizeLookupValue(entry.name.v)) = target.name

\* mutant: the last matching entry of the page instead of the first
FindLast(kind, data, target) ==
    LET hits == {k \in 1..Len(data) : Matches(kind, data[k], target)}
    IN  IF hits = {} THEN 0 ELSE SetMax(hits)

\* mutant: a cursor is kept between calls, a later call passes over the entry
\* the call before it returned
FindPastPrevious(kind, data, target) ==
    LET hits == {k \in 1..Len(data) :
                    /\ Str(normalizeLookupValue(data[k].name.v)) = target.name
                    /\ scan.first # Undef => Return(data[k].id) # scan.first.outcome}
    IN  IF hits = {} THEN 0 ELSE SetMin(hits)

\* Array.prototype.find: the index of the first matching entry, 0 for none
Find(kind, data, target) ==
    LET hits == {k \in 1..Len(data) : Matches(kind, data[k], target)}
    IN  IF hits = {} THEN 0 ELSE SetMin(hits)

\* mutant: a name is similar when it begins with the four characters the
\* target begins with
RECURSIVE CollectSuggestionsSharedStart(_, _, _)
CollectSuggestionsSharedStart(suggestions, data, target) ==
    IF data = <<>> THEN suggestions
    ELSE LET name == Head(data).name.v
             normalizedName == normalizeLookupValue(name)
             near == /\ Len(normalizedName) >= 4
                     /\ Len(target.name.v) >= 4
                     /\ SubSeq(normalizedName, 1, 4) = SubSeq(target.name.v, 1, 4)
             dup == \E k \in 1..Len(suggestions) : suggestions[k] = name
         IN  CollectSuggestionsSharedStart(IF near /\ ~dup THEN Append(suggestions, name)
                                           ELSE suggestions,
                                           Tail(data), target)

\* mutant: the similar names are kept in a list, a repeated name is listed again
RECURSIVE CollectSuggestionsRepeating(_, _, _)
CollectSuggestionsRepeating(suggestions, data, target) ==
    IF data = <<>> THEN suggestions
    ELSE LET name == Head(data).name.v
             normalizedName == normalizeLookupValue(name)
             near == \/ Includes(normalizedName, target.name.v)
                     \/ Includes(target.name.v, normalizedName)
                     \/ Includes(ToLowerCase(name), target.name.v)
         IN  CollectSuggestionsRepeating(IF near THEN Append(suggestions, name)
                                         ELSE suggestions,
                                         Tail(data), target)

\* the similar names resolveActivityTypeId collects from a page without a match:
\* a Map keyed by name, so a name keeps the place of its first insertion
RECURSIVE CollectSuggestions(_, _, _)
CollectSuggestions(suggestions, data, target) ==
    IF data = <<>> THEN suggestions
    ELSE LET name == Head(data).name.v
             normalizedName == normalizeLookupValue(name)
             near == \/ Includes(normalizedName, target.name.v)
                     \/ Includes(target.name.v, normalizedName)
                     \/ Includes(ToLowerCase(name), target.name.v)
             dup == \E k \in 1..Len(suggestions) : suggestions[k] = name
         IN  CollectSuggestions(IF near /\ ~dup THEN Append(suggestions, name)
                                ELSE suggestions,
                                Tail(data), target)

\* suggestions.slice(0, 5)
MaxSuggestions == 5

\* mutant: a scan without a match fails the way a failed request does
NoMatchErrorAsApiError(kind, args, suggestions) ==
    [class |-> "MonicaApiError", message |-> "failed with status"]

\* the error thrown after the loop; target is the argument quoted in the message
NoMatchError(kind, args, suggestions) ==
    CASE kind = "gender" ->
           [class |-> "Error", message |-> "No gender matched", target |-> args.name]
      [] kind = "country" ->
           IF ~Nullish(args.iso) /\ Trim(args.iso.v) # <<>>
           THEN [class |-> "Error", message |-> "No country matched ISO code",
                 target |-> args.iso]
           ELSE [class |-> "Error", message |-> "No country matched name",
                 target |-> args.name]
      [] kind = "contactFieldType" ->
           [class |-> "Error", message |-> "No contact field type matched",
            target |-> args.name]
      [] kind = "activityType" ->
           [class |-> "Error", message |-> "No activity type matched",
            target |-> args.name,
            suggestions |-> SubSeq(suggestions, 1, Min(MaxSuggestions, Len(suggestions)))]
      [] kind = "relationshipType" ->
           [class |-> "Error", message |-> "No relationship type matched",
            target |-> args.name]

\* mutant: the scan goes on until the reported page is past the last one
LastPageReachedStrict(meta) == meta.current_page > meta.last_page

\* mutant: the scan stops on the page before the last
LastPageReachedEarly(meta) == meta.current_page + 1 >= meta.last_page

\* response.meta.current_page >= response.meta.last_page
LastPageReached(meta) == meta.current_page >= meta.last_page

\* limit of every listing a resolver requests
PageLimit == 100

ListPath(kind) ==
    CASE kind = "gender" -> "genders"
      [] kind = "country" -> "countries"
      [] kind = "contactFieldType" -> "contactfieldtypes"
      [] kind = "activityType" -> "activitytypes"
      [] kind = "relationshipType" -> "relationshiptypes"

\* mutant: the page to request is counted by the module, for all invocations
ListRequestSharedCounter(kind, page) ==
    [inv |-> 0, method |-> "GET", path |-> <<ListPath(kind)>>,
     query |-> [limit |-> PageLimit, page |-> Len(wire) + 1], body |-> Undef]

\* client.listX(100, page) / client.listX({ limit: 100, page })
ListRequest(kind, page) ==
    [inv |-> 0, method |-> "GET", path |-> <<ListPath(kind)>>,
     query |-> [limit |-> PageLimit, page |-> page], body |-> Undef]

(***************************************************************************)
(* The records a GET can return and the patches a caller can pass          *)
(* (types.ts: MonicaCall, MonicaReminder, MonicaTask, MonicaNote; the      *)
(* Update*Payload interfaces of MonicaClient.ts).  contact_id stands for   *)
(* existing.contact.id (existing.contact?.id for a task); Undef there is a *)
(* contact that carries no id.                                             *)
(***************************************************************************)
Kinds == {"call", "reminder", "task", "note"}

RecIds == {1, 2}

MonicaCall ==
    [called_at : {Null, Str(sDate1), Str(sDate1Long)},
     content : {Null, Str(sHi)},
     contact_id : {Undef, Num(1)}]

MonicaReminder ==
    [title : {Str(sA)},
     description : {Null, Str(sB)},
     next_expected_date : {Null, Str(sDate1Long)},
     frequency_type : {Str(sWeek)},
     frequency_number : {Null, Num(2)},
     contact_id : {Num(1)}]

MonicaTask ==
    [title : {Str(sA)},
     description : {Null, Str(sB)},
     completed : {Bool(FALSE), Bool(TRUE)},
     completed_at : {Null, Str(sDate1)},
     contact_id : {Undef, Num(1)}]

MonicaNote ==
    [body : {Str(sA)},
     is_favorited : {Bool(FALSE), Bool(TRUE)},
     contact_id : {Undef, Num(1)}]

ExistingRecords(kind) ==
    CASE kind = "call" -> MonicaCall
      [] kind = "reminder" -> MonicaReminder
      [] kind = "task" -> MonicaTask
      [] kind = "note" -> MonicaNote

UpdateCallPayload ==
    [contactId : {Undef, Num(2)},
     calledAt : {Undef, Str(sDate2)},
     content : {Undef, Null, Str(sC)}]

UpdateReminderPayload ==
    [title : {Undef, Str(sC)},
     description : {Undef, Null, Str(sD)},
     nextExpectedDate : {Undef, Str(sDate2)},
     frequencyType : {Undef, Str(sYear)},
     frequencyNumber : {Undef, Null, Num(3)},
     contactId : {Undef, Num(2)}]

UpdateTaskPayload ==
    [title : {Undef, Str(sC)},
     description : {Undef, Null, Str(sD)},
     status : {Undef, Str(sOpen), Str(sCompleted)},
     completedAt : {Undef, Null, Str(sDate2)},
     contactId : {Undef, Num(2)}]

UpdateNotePayload ==
    [contactId : {Undef, Num(2)},
     body : {Undef, Str(sC)},
     isFavorited : {Undef, Bool(FALSE), Bool(TRUE)}]

Patches(kind) ==
    CASE kind = "call" -> UpdateCallPayload
      [] kind = "reminder" -> UpdateReminderPayload
      [] kind = "task" -> UpdateTaskPayload
      [] kind = "note" -> UpdateNotePayload

\* the patches that set exactly one field, to a value
SingleFieldPatches(kind) ==
    {p \in Patches(kind) : /\ Cardinality({f \in DOMAIN p : p[f] # Undef}) = 1
                           /\ \A f \in DOMAIN p : p[f] # Null}

(***************************************************************************)
(* updateCall / updateReminder / updateTask / updateNote                   *)
(***************************************************************************)
Collection(kind) ==
    CASE kind = "call" -> "calls"
      [] kind = "reminder" -> "reminders"
      [] kind = "task" -> "tasks"
      [] kind = "note" -> "notes"

\* this.getCall(callId) and its siblings: GET <collection>/<id>
GetRequest(i, kind, id) ==
    [inv |-> i, method |-> "GET", path |-> <<Collection(kind), id>>, body |-> Undef]

\* mutant: the PUT goes to another record than the GET
PutRequestOtherRecord(i, kind, id, body) ==
    [inv |-> i, method |-> "PUT", path |-> <<Collection(kind), 3 - id>>,
     body |-> JsonStringify(body)]

\* this.request(`<collection>/${id}`, { method: 'PUT', body: JSON.stringify(body) })
PutRequest(i, kind, id, body) ==
    [inv |-> i, method |-> "PUT", path |-> <<Collection(kind), id>>,
     body |-> JsonStringify(body)]

\* what the update does between the GET's answer and the PUT: merge, then build
MergedBody(kind, existing, patch) ==
    CASE kind = "call" ->
           LET merged == mergeCallPayload(existing, patch)
           IN  IF merged.ok THEN Return(buildCallRequestBody(merged.value)) ELSE merged
      [] kind = "reminder" ->
           LET merged == mergeReminderPayload(existing, patch)
           IN  IF merged.ok THEN Return(buildReminderRequestBody(merged.value)) ELSE merged
      [] kind = "task" ->
           LET merged == mergeTaskPayload(existing, patch)
           IN  IF merged.ok THEN Return(buildTaskRequestBody(merged.value)) ELSE merged
      [] kind = "note" -> buildNoteRequestBody(existing, patch)

\* the errors this.request raises: MonicaApiError on a non-2xx answer, an Error on
\* the abort of the timeout, any other exception of fetch re-thrown
TransportErrors ==
    {[class |-> "MonicaApiError", message |-> "failed with status"],
     [class |-> "Error", message |-> "timed out."],
     [class |-> "TypeError", message |-> "fetch failed"]}

(***************************************************************************)
(* The server (environment): it answers a GET with the stored record and   *)
(* replaces the stored fields by those of a PUT body.                      *)
(***************************************************************************)
ServerApply(kind, rec, body) ==
    LET get(wf, rf) == IF wf \in DOMAIN body THEN body[wf] ELSE rec[rf]
        flag(wf, rf) == IF wf \in DOMAIN body THEN Bool(body[wf] = Num(1)) ELSE rec[rf]
    IN  CASE kind = "call" ->
               [called_at |-> get("called_at", "called_at"),
                content |-> get("content", "content"),
                contact_id |-> get("contact_id", "contact_id")]
          [] kind = "reminder" ->
               [title |-> get("title", "title"),
                description |-> get("description", "description"),
                next_expected_date |-> get("next_expected_date", "next_expected_date"),
                frequency_type |-> get("frequency_type", "frequency_type"),
                frequency_number |-> get("frequency_number", "frequency_number"),
                contact_id |-> get("contact_id", "contact_id")]
          [] kind = "task" ->
               [title |-> get("title", "title"),
                description |-> get("description", "description"),
                completed |-> flag("completed", "completed"),
                completed_at |-> get("completed_at", "completed_at"),
                contact_id |-> get("contact_id", "contact_id")]
          [] kind = "note" ->
               [body |-> get("body", "body"),
                is_favorited |-> flag("is_favorited", "is_favorited"),
                contact_id |-> get("contact_id", "contact_id")]

DefaultRecord(kind) ==
    CHOOSE r \in ExistingRecords(kind) : \A f \in DOMAIN r : ~Nullish(r[f])

(***************************************************************************)
(* The catalog behind a scan (environment): an ordered list the server     *)
(* cuts into pages of perPage entries, where perPage stands for the        *)
(* smaller of the requested limit and the number of entries the server is  *)
(* willing to put on a page.  It reports the requested page as             *)
(* current_page and the number of pages, at least 1, as last_page.         *)
(***************************************************************************)
sMale == <<"M","a","l","e">>

sMaleSpaced == <<" ","m","a","l","e"," ">>

sMaleUpper == <<"M","A","L","E">>

sOther == <<"O","t","h","e","r">>

sNone == <<"n","o","n","e">>

sFrance == <<"F","r","a","n","c","e">>

sFranceSpaced == <<" ","f","r","a","n","c","e"," ">>

sGermany == <<"G","e","r","m","a","n","y">>

sZed == <<"Z","e","d">>

NamedEntries ==
    {[id |-> Num(11), name |-> Str(sMale)],
     [id |-> Num(12), name |-> Str(sMaleSpaced)],
     [id |-> Num(13), name |-> Str(sOther)],
     [id |-> Num(0), name |-> Str(sMaleUpper)]}

Countries ==
    {[id |-> Str(<<"F","R">>), iso |-> Str(<<"f","r">>), name |-> Str(sFrance)],
     [id |-> Str(<<"D","E">>), iso |-> Str(<<"D","E">>), name |-> Str(sGermany)],
     [id |-> Str(<<"X","F">>), iso |-> Str(<<"x","f">>), name |-> Str(sFranceSpaced)],
     [id |-> Str(<<"Z","Z">>), iso |-> Str(<<>>), name |-> Str(sZed)]}

EntryPool(kind) == IF kind = "country" THEN Countries ELSE NamedEntries

\* the longest catalog
MaxItems == 3

\* the largest page
MaxPerPage == 2

\* the sequences of at most n different elements of S
ListsOf(S, n) ==
    UNION {{q \in [1..k -> S] : \A a, b \in 1..k : a # b => q[a] # q[b]} : k \in 0..n}

\* what the callers of a resolver pass
ResolverArgs(kind) ==
    IF kind = "country"
    THEN [id : {Undef, Null, Str(<<>>), Str(<<"F","R">>)},
          iso : {Undef, Str(<<" ">>), Str(<<"F","R">>), Str(<<" ","d","e">>)},
          name : {Undef, Str(sFrance), Str(<<"g","e","r","m","a","n","y"," ">>)}]
    ELSE [id : {Undef, Num(0), Num(12)},
          iso : {Undef},
          name : {Undef, Str(<<>>), Str(sMaleUpper), Str(sMaleSpaced), Str(sOther),
                  Str(sNone)}]

LastPage(cat) ==
    IF Len(cat.items) = 0 THEN 1
    ELSE (Len(cat.items) + cat.perPage - 1) \div cat.perPage

ListResponse(cat, page) ==
    [data |-> SubSeq(cat.items, (page - 1) * cat.perPage + 1,
                     Min(page * cat.perPage, Len(cat.items))),
     meta |-> [current_page |-> page, last_page |-> LastPage(cat)]]

sMeeting == <<"M","e","e","t","i","n","g">>

sMeal == <<"M","e","a","l">>

sMeet == <<"M","e","e","t">>

sMeets == <<"M","E","E","T","S">>

sMeetUp == <<" ","m","e","e","t"," ","u","p">>

sNet == <<"N","e","t">>

sDiet == <<"D","i","e","t">>

sMeetng == <<"M","e","e","t","n","g">>

\* the activity types of a larger account, in the order the server lists them;
\* two of them carry the same name
ActivityTypeList ==
    <<[id |-> Num(21), name |-> Str(sMeeting)],
      [id |-> Num(22), name |-> Str(sMeal)],
      [id |-> Num(23), name |-> Str(sMeet)],
      [id |-> Num(24), name |-> Str(sMeets)],
      [id |-> Num(25), name |-> Str(sMeeting)],
      [id |-> Num(26), name |-> Str(sMeetUp)],
      [id |-> Num(27), name |-> Str(sNet)],
      [id |-> Num(28), name |-> Str(sDiet)]>>

RECURSIVE Keep(_, _, _)
Keep(list, S, k) ==
    IF k > Len(list) THEN <<>>
    ELSE (IF k \in S THEN <<list[k]>> ELSE <<>>) \o Keep(list, S, k + 1)

\* the lists left when entries of list are removed
SubLists(list) == {Keep(list, S, 1) : S \in SUBSET (1..Len(list))}

\* what the callers of resolveActivityTypeId pass when they know a name only
ActivityTypeArgs ==
    [id : {Undef}, iso : {Undef},
     name : {Str(sMeetng), Str(<<" ","E","T"," ">>), Str(<<"m","e","a","l"," ">>)}]

IdleScan ==
    [pc |-> "idle", args |-> Undef, target |-> Undef, page |-> 0,
     suggestions |-> <<>>, last |-> Undef, outcome |-> Undef, first |-> Undef]

NoCatalog == [kind |-> "gender", items |-> <<>>, perPage |-> 1]

IdleUpdate ==
    [pc |-> "idle", id |-> 0, patch |-> Undef, existing |-> Undef, outcome |-> Undef]


(***************************************************************************)
(* MonicaClient.request: response bodies.  A body is a text; parsed JSON   *)
(* is a tagged value, an object being the sequence of its <<key, value>>   *)
(* members and an array the sequence of its elements.  JsonParse reads the *)
(* JSON grammar without escapes, signs, fractions and exponents, which is  *)
(* the grammar of the sample bodies.                                       *)
(***************************************************************************)
Obj(members) == [t |-> "object", v |-> members]

Arr(elements) == [t |-> "array", v |-> elements]

Digits == <<"0","1","2","3","4","5","6","7","8","9">>

IsDigit(c) == \E k \in 1..Len(Digits) : Digits[k] = c

DigitValue(c) == (CHOOSE k \in 1..Len(Digits) : Digits[k] = c) - 1

Drop(s, n) == SubSeq(s, n + 1, Len(s))

StartsWith(s, p) == Len(s) >= Len(p) /\ SubSeq(s, 1, Len(p)) = p

SkipWs(s) ==
    LET ink == {k \in 1..Len(s) : s[k] \notin Whitespace}
    IN  IF ink = {} THEN <<>> ELSE Drop(s, SetMin(ink) - 1)

RECURSIVE NumberOf(_)
NumberOf(ds) ==
    IF ds = <<>> THEN 0
    ELSE 10 * NumberOf(SubSeq(ds, 1, Len(ds) - 1)) + DigitValue(ds[Len(ds)])

\* an object member is set: a repeated key keeps its place and takes the new value
SetMember(members, key, value) ==
    IF \E k \in 1..Len(members) : members[k][1] = key
    THEN [k \in 1..Len(members) |->
              IF members[k][1] = key THEN <<key, value>> ELSE members[k]]
    ELSE Append(members, <<key, value>>)

Parsed(value, rest) == [ok |-> TRUE, value |-> value, rest |-> rest]

NotParsed == [ok |-> FALSE]

\* a string literal at the head of s
ParseString(s) ==
    LET closing == {k \in 2..Len(s) : s[k] = "\""}
    IN  IF s = <<>> \/ Head(s) # "\"" \/ closing = {} THEN NotParsed
        ELSE Parsed(Str(SubSeq(s, 2, SetMin(closing) - 1)), Drop(s, SetMin(closing)))

\* the length of the run of digits at the head of s
DigitRun(s) ==
    IF \E k \in 1..Len(s) : ~IsDigit(s[k])
    THEN SetMin({k \in 1..Len(s) : ~IsDigit(s[k])}) - 1
    ELSE Len(s)

\* what follows a member's value: "}" ends the object, "," announces a member
AfterMember(now, s) ==
    IF s = <<>> THEN NotParsed
    ELSE IF Head(s) = "}" THEN Parsed(Obj(now), Tail(s))
    ELSE IF Head(s) = "," THEN [ok |-> TRUE, more |-> now, rest |-> Tail(s)]
    ELSE NotParsed

\* what follows an element: "]" ends the array, "," announces an element
AfterElement(now, s) ==
    IF s = <<>> THEN NotParsed
    ELSE IF Head(s) = "]" THEN Parsed(Arr(now), Tail(s))
    ELSE IF Head(s) = "," THEN [ok |-> TRUE, more |-> now, rest |-> Tail(s)]
    ELSE NotParsed

\* the recursive descent of JSON.parse: a value at the head of s0, or the rest
\* of an object after "{" or ",", or the rest of an array after "[" or ",".
\* Each intermediate result is bound once, as the element of a singleton.
RECURSIVE Parse(_, _, _)
Parse(part, sofar0, s0) ==
    CHOOSE result \in
      {CASE part = "members" ->
              LET key == ParseString(s)
              IN  IF ~key.ok THEN NotParsed
                  ELSE IF SkipWs(key.rest) = <<>> \/ Head(SkipWs(key.rest)) # ":"
                  THEN NotParsed
                  ELSE CHOOSE r \in
                         {IF ~val.ok THEN NotParsed
                          ELSE CHOOSE q \in
                                 {IF "more" \in DOMAIN next
                                  THEN Parse("members", next.more, next.rest)
                                  ELSE next :
                                  next \in {AfterMember(
                                               SetMember(sofar, key.value.v, val.value),
                                               SkipWs(val.rest))}} : TRUE :
                          val \in {Parse("value", <<>>, Tail(SkipWs(key.rest)))}} : TRUE
         [] part = "elements" ->
              CHOOSE r \in
                {IF ~val.ok THEN NotParsed
                 ELSE CHOOSE q \in
                        {IF "more" \in DOMAIN next
                         THEN Parse("elements", next.more, next.rest)
                         ELSE next :
                         next \in {AfterElement(Append(sofar, val.value),
                                                SkipWs(val.rest))}} : TRUE :
                 val \in {Parse("value", <<>>, s)}} : TRUE
         [] part = "value" ->
              IF s = <<>> THEN NotParsed
              ELSE IF StartsWith(s, <<"n","u","l","l">>) THEN Parsed(Null, Drop(s, 4))
              ELSE IF StartsWith(s, <<"t","r","u","e">>)
              THEN Parsed(Bool(TRUE), Drop(s, 4))
              ELSE IF StartsWith(s, <<"f","a","l","s","e">>)
              THEN Parsed(Bool(FALSE), Drop(s, 5))
              ELSE IF Head(s) = "\"" THEN ParseString(s)
              ELSE IF IsDigit(Head(s))
              THEN IF Head(s) = "0" /\ DigitRun(s) > 1 THEN NotParsed
                   ELSE Parsed(Num(NumberOf(SubSeq(s, 1, DigitRun(s)))),
                               Drop(s, DigitRun(s)))
              ELSE IF Head(s) = "["
              THEN IF SkipWs(Tail(s)) # <<>> /\ Head(SkipWs(Tail(s))) = "]"
                   THEN Parsed(Arr(<<>>), Tail(SkipWs(Tail(s))))
                   ELSE Parse("elements", <<>>, Tail(s))
              ELSE IF Head(s) = "{"
              THEN IF SkipWs(Tail(s)) # <<>> /\ Head(SkipWs(Tail(s))) = "}"
                   THEN Parsed(Obj(<<>>), Tail(SkipWs(Tail(s))))
                   ELSE Parse("members", <<>>, Tail(s))
              ELSE NotParsed :
       s \in {SkipWs(s0)}, sofar \in {sofar0}} : TRUE

\* JSON.parse(text): the value, or a SyntaxError
JsonParse(text) ==
    LET r == Parse("value", <<>>, text)
    IN  IF r.ok /\ SkipWs(r.rest) = <<>> THEN Return(r.value)
        ELSE Throw("SyntaxError", "Unexpected token")

\* mutant: a body that does not parse raises
deserializeJsonStrict(payload) == JsonParse(payload)

\* try { return JSON.parse(payload) } catch { return payload }
deserializeJson(payload) ==
    LET r == JsonParse(payload) IN IF r.ok THEN r ELSE Return(Str(payload))

sRedacted == <<"[","r","e","d","a","c","t","e","d","]">>

sToken == <<"t","o","k","e","n">>

\* mutant: only the members of the value itself are looked at
scrubSecretsShallow(value) ==
    IF value.t = "object"
    THEN Obj([k \in 1..Len(value.v) |->
                 IF Includes(ToLowerCase(value.v[k][1]), sToken)
                 THEN <<value.v[k][1], Str(sRedacted)>>
                 ELSE value.v[k]])
    ELSE value

\* scrubSecrets(value): a copy in which every member whose lower-cased key
\* contains "token" is '[redacted]', through nested objects and arrays
RECURSIVE scrubSecrets(_)
scrubSecrets(value) ==
    IF value.t = "array"
    THEN Arr([k \in 1..Len(value.v) |-> scrubSecrets(value.v[k])])
    ELSE IF value.t = "object"
    THEN Obj([k \in 1..Len(value.v) |->
                 IF Includes(ToLowerCase(value.v[k][1]), sToken)
                 THEN <<value.v[k][1], Str(sRedacted)>>
                 ELSE <<value.v[k][1], scrubSecrets(value.v[k][2])>>])
    ELSE value

\* mutant: the marker is written into the members of the argument itself
scrubSecretsInPlace(value) ==
    [returned |-> scrubSecrets(value), argument |-> scrubSecrets(value)]

\* a call of scrubSecrets on the object data refers to: what it returns, and
\* that object after the call; the marker is written into a copy ({ ...value },
\* map), never into the argument
scrubSecretsCall(value) ==
    [returned |-> scrubSecrets(value), argument |-> value]

(***************************************************************************)
(* MonicaClient.request: the call, its timer and its errors                *)
(***************************************************************************)
\* options.defaultTimeoutMs ?? 15000
DefaultTimeoutMs == 15000

\* the constructor: this.defaultTimeoutMs
defaultTimeoutMs(options) == Coalesce(options.defaultTimeoutMs, Num(DefaultTimeoutMs))

sApi == <<"/","a","p","i","/">>

sContacts == <<"c","o","n","t","a","c","t","s">>

sSlashGenders == <<"/","g","e","n","d","e","r","s">>

\* new URL(path.replace(/^\//, ''), this.apiBaseUrl).pathname, for a base URL
\* without a path of its own
UrlPathname(path) ==
    sApi \o (IF path # <<>> /\ Head(path) = "/" THEN Tail(path) ELSE path)

sSecret == <<"s","3","c","r","3","t">>

sUser == <<"u","5","3","r">>

sBearer == <<"B","e","a","r","e","r"," ">>

sJson == <<"a","p","p","l","i","c","a","t","i","o","n","/","j","s","o","n">>

sAgent == <<"m","o","n","i","c","a","-","c","r","m","-","m","c","p","/","0",".","1">>

TokenTypes == {"bearer", "apiKey", "legacy"}

\* new MonicaClient(options): the client, or the error of the constructor
MonicaClient(options) ==
    IF options.tokenType = "legacy" /\ Falsy(options.userToken)
    THEN Throw("Error", "Legacy authentication requires both token and user token.")
    ELSE Return([options |-> options, defaultTimeoutMs |-> defaultTimeoutMs(options)])

\* new Headers(init): the headers as name and value pairs
Headers(init) == IF init = Undef THEN {} ELSE init

\* headers.has(name)
HeadersHas(headers, name) == \E h \in headers : h[1] = name

\* headers.set(name, value)
HeadersSet(headers, name, value) ==
    {h \in headers : h[1] # name} \cup {<<name, value>>}

\* the first statements of buildHeaders: Accept and the default Content-Type
DefaultHeaders(additional, skipDefaultContentType) ==
    LET accepted == HeadersSet(Headers(additional), "Accept", sJson)
    IN  IF ~skipDefaultContentType /\ ~HeadersHas(accepted, "Content-Type")
        THEN HeadersSet(accepted, "Content-Type", sJson)
        ELSE accepted

\* mutant: the cases of the switch fall through to the ones below them
buildHeadersFallThrough(options, additional, skipDefaultContentType) ==
    LET h0 == DefaultHeaders(additional, skipDefaultContentType)
        h1 == IF options.tokenType = "bearer"
              THEN HeadersSet(h0, "Authorization", sBearer \o options.token.v)
              ELSE h0
        h2 == IF options.tokenType \in {"bearer", "apiKey"}
              THEN HeadersSet(h1, "X-API-Key", options.token.v)
              ELSE h1
        h3 == HeadersSet(HeadersSet(h2, "X-Auth-Token", options.token.v),
                         "X-User-Token", Coalesce(options.userToken, Str(<<>>)).v)
    IN  HeadersSet(h3, "User-Agent", sAgent)

\* buildHeaders(additional, skipDefaultContentType) of a client with options
buildHeaders(options, additional, skipDefaultContentType) ==
    LET h0 == DefaultHeaders(additional, skipDefaultContentType)
        h1 == CASE options.tokenType = "bearer" ->
                     HeadersSet(h0, "Authorization", sBearer \o options.token.v)
                [] options.tokenType = "apiKey" ->
                     HeadersSet(h0, "X-API-Key", options.token.v)
                [] options.tokenType = "legacy" ->
                     HeadersSet(HeadersSet(h0, "X-Auth-Token", options.token.v),
                                "X-User-Token",
                                Coalesce(options.userToken, Str(<<>>)).v)
    IN  HeadersSet(h1, "User-Agent", sAgent)

\* options.body instanceof FormData
isFormData(body) == body.t = "formData"

\* mutant: the request is not tied to the abort controller
requestInitUnsignalled(options, headers, signal) ==
    [method |-> options.method, body |-> options.body, headers |-> headers,
     signal |-> "none"]

\* { ...options, headers, signal: abortController.signal }
requestInit(options, headers, signal) ==
    [method |-> options.method, body |-> options.body, headers |-> headers,
     signal |-> signal]

\* response.ok
ResponseOk(status) == status >= 200 /\ status <= 299

MonicaApiError(pathname, status, data, requestId) ==
    [class |-> "MonicaApiError", name |-> "MonicaApiError",
     message |-> "failed with status", pathname |-> pathname,
     status |-> status, data |-> data, requestId |-> requestId]

\* what fetch and response.text() reject with once the signal is aborted
AbortError == [class |-> "DOMException", name |-> "AbortError",
               message |-> "This operation was aborted"]

\* what fetch and response.text() reject with when the connection fails
NetworkError == [class |-> "TypeError", name |-> "TypeError", message |-> "fetch failed"]

TimeoutError(pathname) ==
    [class |-> "Error", name |-> "Error", message |-> "timed out.", pathname |-> pathname]

\* mutant: a failed status is reported as a plain error without status and body
RejectedPlain(caught, pathname) ==
    IF caught.class = "MonicaApiError"
    THEN [thrown |-> [class |-> "Error", name |-> "Error",
                      message |-> "failed with status", pathname |-> pathname],
          log |-> <<>>]
    ELSE IF caught.name = "AbortError"
    THEN [thrown |-> TimeoutError(pathname), log |-> <<>>]
    ELSE [thrown |-> caught,
          log |-> <<[level |-> "error", msg |-> "Unexpected Monica API error",
                     err |-> caught, url |-> pathname]>>]

\* the catch block: what request throws for what it caught, and what it logs
Rejected(caught, pathname) ==
    IF caught.class = "MonicaApiError"
    THEN [thrown |-> caught, log |-> <<>>]
    ELSE IF caught.name = "AbortError"
    THEN [thrown |-> TimeoutError(pathname), log |-> <<>>]
    ELSE [thrown |-> caught,
          log |-> <<[level |-> "error", msg |-> "Unexpected Monica API error",
                     err |-> caught, url |-> pathname]>>]

\* the try block once the body text is read: the data returned, or the error
\* thrown into the catch block, and what is logged
Settled(pathname, status, requestId, text) ==
    LET parsed == IF text # <<>> THEN deserializeJson(text) ELSE Return(Undef)
    IN  IF ~parsed.ok
        THEN LET c == Rejected(parsed.error @@ [name |-> parsed.error.class], pathname)
             IN  [outcome |-> [ok |-> FALSE, error |-> c.thrown], log |-> c.log]
        ELSE IF ~ResponseOk(status)
        THEN LET scrubbed == scrubSecretsCall(parsed.value)
                 c == Rejected(MonicaApiError(pathname, status, scrubbed.argument,
                                              requestId),
                               pathname)
             IN  [outcome |-> [ok |-> FALSE, error |-> c.thrown],
                  log |-> <<[level |-> "warn", msg |-> "Monica API request failed",
                             status |-> status, requestId |-> requestId,
                             url |-> pathname, body |-> scrubbed.returned]>>
                          \o c.log]
        ELSE [outcome |-> Return(parsed.value), log |-> <<>>]

\* the operations of MonicaClient that are `return this.request(...)`: what the
\* request returns or throws is what the operation returns or throws
ClientOperation(outcome) == outcome

\* a body with tokens inside an array and under a key in capitals:
\* {"a":[7,{"apiToken":"s"}],"Token":{"k":"s"}}
sNested ==
    <<"{","\"","a","\"",":","[","7",",","{","\"","a","p","i","T","o","k","e","n",
      "\"",":","\"","s","\"","}","]",",","\"","T","o","k","e","n","\"",":","{",
      "\"","k","\"",":","\"","s","\"","}","}">>

\* the bodies a server sends
BodyTexts ==
    {<<>>,
     <<"{","\"","a","\"",":","1","}">>,
     sNested,
     <<"n","u","l","l">>,
     <<"<","h","t","m","l",">">>,
     <<"{","\"","a","\"",":">>}

Statuses == {200, 204, 299, 300, 404, 500}

RequestIds == {Null, Str(<<"r","1">>)}

IdleCall ==
    [pc |-> "idle",
     config |-> [defaultTimeoutMs |-> Undef, tokenType |-> "bearer",
                 token |-> Str(sSecret), userToken |-> Undef],
     defaultTimeoutMs |-> Num(DefaultTimeoutMs), options |-> Undef,
     pathname |-> <<>>, init |-> Undef, delay |-> 0, timer |-> "unset",
     aborted |-> FALSE, response |-> Undef, text |-> Undef, outcome |-> Undef,
     log |-> <<>>, operation |-> Undef]

\* a resolver invocation that is never called in the run
NoScan == [IdleScan EXCEPT !.pc = "off"]

\* a tool handler before it is called
IdleTool == [pc |-> "idle", name |-> "none", result |-> Undef]

\* a tool handler that is never called in the run
NoTool == [IdleTool EXCEPT !.pc = "off"]

\* one update invocation, any patch
InitMerge ==
    /\ entity \in Kinds
    /\ store \in [RecIds -> ExistingRecords(entity)]
    /\ store[2] = DefaultRecord(entity)
    /\ upd = [i \in {1} |-> IdleUpdate]
    /\ wire = <<>>
    /\ other = NoScan
    /\ tool = NoTool
    /\ catalog = NoCatalog
    /\ scan = IdleScan
    /\ call = IdleCall

\* two update invocations in flight at once; each patches one field of a record
\* that has every field set
InitRace ==
    /\ entity \in Kinds
    /\ store = [id \in RecIds |-> DefaultRecord(entity)]
    /\ upd = [i \in {1, 2} |-> IdleUpdate]
    /\ wire = <<>>
    /\ other = NoScan
    /\ tool = NoTool
    /\ catalog = NoCatalog
    /\ scan = IdleScan
    /\ call = IdleCall

\* updateX(id, patch) is called: const existing = await this.getX(id) issues the GET
Begin(i, id, patch) ==
    /\ upd[i].pc = "idle"
    /\ upd' = [upd EXCEPT ![i] = [@ EXCEPT !.pc = "awaitGet", !.id = id, !.patch = patch]]
    /\ wire' = Append(wire, GetRequest(i, entity, id))
    /\ UNCHANGED <<entity, store, catalog, scan, call, other, tool>>

StartUpdate(i) ==
    \E id \in RecIds, patch \in Patches(entity) : Begin(i, id, patch)

\* The two invocations and the two records are interchangeable: the first to
\* begin is invocation 1, on record 1; invocation 2 takes either record.
StartRacingUpdate(i) ==
    /\ i = 1 \/ upd[1].pc # "idle"
    /\ \E id \in (IF i = 1 THEN {1} ELSE RecIds), patch \in SingleFieldPatches(entity) :
          Begin(i, id, patch)

\* the GET is answered with the stored record; the merge runs and either throws
\* or the PUT is issued
GetOk(i) ==
    /\ upd[i].pc = "awaitGet"
    /\ LET existing == store[upd[i].id]
           merged == MergedBody(entity, existing, upd[i].patch)
       IN  IF merged.ok
           THEN /\ upd' = [upd EXCEPT ![i] = [@ EXCEPT !.pc = "awaitPut",
                                                       !.existing = existing]]
                /\ wire' = Append(wire, PutRequest(i, entity, upd[i].id, merged.value))
           ELSE /\ upd' = [upd EXCEPT ![i] = [@ EXCEPT !.pc = "failed",
                                                       !.existing = existing,
                                                       !.outcome = merged.error]]
                /\ wire' = wire
    /\ UNCHANGED <<entity, store, catalog, scan, call, other, tool>>

\* the GET fails: the error leaves updateX, nothing else runs
GetFail(i) ==
    /\ upd[i].pc = "awaitGet"
    /\ \E e \in TransportErrors :
          upd' = [upd EXCEPT ![i] = [@ EXCEPT !.pc = "failed", !.outcome = e]]
    /\ UNCHANGED <<entity, store, wire, catalog, scan, call, other, tool>>

LastPut(i) ==
    LET puts == SelectSeq(wire, LAMBDA r : r.inv = i /\ r.method = "PUT")
    IN  puts[Len(puts)]

\* the PUT is answered 2xx: the server has replaced the record
PutOk(i) ==
    /\ upd[i].pc = "awaitPut"
    /\ store' = [store EXCEPT ![LastPut(i).path[2]] =
                     ServerApply(entity, @, LastPut(i).body)]
    /\ upd' = [upd EXCEPT ![i] = [@ EXCEPT !.pc = "done", !.outcome = Str(<<"o","k">>)]]
    /\ UNCHANGED <<entity, wire, catalog, scan, call, other, tool>>

\* the PUT fails; after a timeout the server may still have applied it
PutFail(i) ==
    /\ upd[i].pc = "awaitPut"
    /\ \E e \in TransportErrors, applied \in BOOLEAN :
          /\ applied => e.message = "timed out."
          /\ store' = IF applied
                      THEN [store EXCEPT ![LastPut(i).path[2]] =
                                ServerApply(entity, @, LastPut(i).body)]
                      ELSE store
          /\ upd' = [upd EXCEPT ![i] = [@ EXCEPT !.pc = "failed", !.outcome = e]]
    /\ UNCHANGED <<entity, wire, catalog, scan, call, other, tool>>

NextMerge ==
    \/ \E i \in DOMAIN upd : StartUpdate(i)
    \/ \E i \in DOMAIN upd : GetOk(i)
    \/ \E i \in DOMAIN upd : GetFail(i)
    \/ \E i \in DOMAIN upd : PutOk(i)
    \/ \E i \in DOMAIN upd : PutFail(i)

SpecMerge == InitMerge /\ [][NextMerge]_vars

NextRace ==
    \/ \E i \in DOMAIN upd : StartRacingUpdate(i)
    \/ \E i \in DOMAIN upd : GetOk(i)
    \/ \E i \in DOMAIN upd : GetFail(i)
    \/ \E i \in DOMAIN upd : PutOk(i)
    \/ \E i \in DOMAIN upd : PutFail(i)

SpecRace == InitRace /\ [][NextRace]_vars

(***************************************************************************)
(* A resolver invocation                                                   *)
(***************************************************************************)
InitResolve ==
    /\ \E k \in ScanKinds :
          catalog \in [kind : {k}, items : ListsOf(EntryPool(k), MaxItems),
                       perPage : 1..MaxPerPage]
    /\ scan = IdleScan
    /\ entity = "call"
    /\ store = [id \in RecIds |-> DefaultRecord("call")]
    /\ upd = [i \in {1} |-> IdleUpdate]
    /\ wire = <<>>
    /\ other = NoScan
    /\ tool = NoTool
    /\ call = IdleCall

\* the part of a resolver up to its first await, called with args by an
\* invocation whose record is fresh: it returns, throws, or requests page 1
CallResolver(fresh, args) ==
    LET r == Resolve(catalog.kind, args)
    IN  IF "target" \in DOMAIN r
        THEN /\ scan' = [fresh EXCEPT !.pc = "awaitPage", !.args = args,
                                      !.target = r.target, !.page = 1]
             /\ wire' = Append(wire, ListRequest(catalog.kind, 1))
        ELSE /\ scan' = [fresh EXCEPT !.pc = IF r.ok THEN "done" ELSE "failed",
                                      !.args = args, !.outcome = r]
             /\ wire' = wire

\* the resolver is called
StartResolve ==
    /\ scan.pc = "idle"
    /\ \E args \in ResolverArgs(catalog.kind) : CallResolver(scan, args)
    /\ UNCHANGED <<entity, store, upd, catalog, call, other, tool>>

\* a page arrives: a match ends the scan; without one the last page ends it with
\* an error, any other page is followed by the request for the next
PageOk ==
    /\ scan.pc = "awaitPage"
    /\ LET response == ListResponse(catalog, scan.page)
           match == Find(catalog.kind, response.data, scan.target)
           suggestions == IF catalog.kind = "activityType"
                          THEN CollectSuggestions(scan.suggestions, response.data,
                                                  scan.target)
                          ELSE scan.suggestions
           seen == [meta |-> response.meta, data |-> response.data]
       IN  IF match # 0
           THEN /\ scan' = [scan EXCEPT !.pc = "done", !.last = seen,
                                        !.outcome = Return(response.data[match].id)]
                /\ wire' = wire
           ELSE IF LastPageReached(response.meta)
           THEN /\ scan' = [scan EXCEPT !.pc = "failed", !.last = seen,
                                        !.suggestions = suggestions,
                                        !.outcome = [ok |-> FALSE,
                                                     error |-> NoMatchError(catalog.kind,
                                                                            scan.args,
                                                                            suggestions)]]
                /\ wire' = wire
           ELSE /\ scan' = [scan EXCEPT !.page = scan.page + 1, !.last = seen,
                                        !.suggestions = suggestions]
                /\ wire' = Append(wire, ListRequest(catalog.kind, scan.page + 1))
    /\ UNCHANGED <<entity, store, upd, catalog, call, other, tool>>

\* mutant: a page that cannot be read is passed over
PageFailSkipsPage ==
    /\ scan.pc = "awaitPage"
    /\ scan' = [scan EXCEPT !.page = scan.page + 1]
    /\ wire' = Append(wire, ListRequest(catalog.kind, scan.page + 1))
    /\ UNCHANGED <<entity, store, upd, catalog, call, other, tool>>

\* the request for a page fails: the error leaves the resolver
PageFail ==
    /\ scan.pc = "awaitPage"
    /\ \E e \in TransportErrors :
          scan' = [scan EXCEPT !.pc = "failed", !.outcome = [ok |-> FALSE, error |-> e]]
    /\ UNCHANGED <<entity, store, upd, wire, catalog, call, other, tool>>

NextResolve ==
    \/ StartResolve
    \/ PageOk
    \/ PageFail

SpecResolve == InitResolve /\ [][NextResolve]_vars

\* the same resolver is called a second time with the same arguments, after a
\* first call that returned a match; nothing of the first call is kept but, for
\* the comparison, its outcome and the number of requests issued by then
ResolveAgain ==
    /\ scan.pc = "done"
    /\ scan.last # Undef
    /\ scan.first = Undef
    /\ CallResolver([IdleScan EXCEPT !.first = [outcome |-> scan.outcome,
                                                requests |-> Len(wire)]],
                    scan.args)
    /\ UNCHANGED <<entity, store, upd, catalog, call, other, tool>>

NextAgain ==
    \/ StartResolve
    \/ PageOk
    \/ PageFail
    \/ ResolveAgain

SpecAgain == InitResolve /\ [][NextAgain]_vars

(***************************************************************************)
(* resolveActivityTypeId against a longer list of activity types           *)
(***************************************************************************)
InitSuggest ==
    /\ catalog \in [kind : {"activityType"}, items : SubLists(ActivityTypeList),
                     perPage : 1..MaxPerPage]
    /\ scan = IdleScan
    /\ entity = "call"
    /\ store = [id \in RecIds |-> DefaultRecord("call")]
    /\ upd = [i \in {1} |-> IdleUpdate]
    /\ wire = <<>>
    /\ other = NoScan
    /\ tool = NoTool
    /\ call = IdleCall

StartActivityLookup ==
    /\ scan.pc = "idle"
    /\ \E args \in ActivityTypeArgs : CallResolver(scan, args)
    /\ UNCHANGED <<entity, store, upd, catalog, call, other, tool>>

NextSuggest ==
    \/ StartActivityLookup
    \/ PageOk
    \/ PageFail

SpecSuggest == InitSuggest /\ [][NextSuggest]_vars

(***************************************************************************)
(* One invocation of MonicaClient.request                                  *)
(***************************************************************************)
\* the options a MonicaClient is constructed with
ClientOptions ==
    [defaultTimeoutMs : {Undef, Num(2000)}, tokenType : TokenTypes,
     token : {Str(sSecret)}, userToken : {Undef, Str(<<>>), Str(sUser)}]

\* the options of a client configured with a token alone: the type is bearer
BearerOptions ==
    {o \in ClientOptions : o.tokenType = "bearer" /\ o.userToken = Undef}

\* the arguments of request
RequestOptions ==
    [path : {sContacts, sSlashGenders}, method : {"GET", "PUT"},
     body : {Undef}, headers : {Undef}, searchParams : {Undef},
     timeoutMs : {Undef, Num(0), Num(3000)}]

InitTransport ==
    /\ \E o \in BearerOptions :
          call = [IdleCall EXCEPT !.config = o,
                                  !.defaultTimeoutMs = defaultTimeoutMs(o)]
    /\ wire = <<>>
    /\ other = NoScan
    /\ tool = NoTool
    /\ entity = "call"
    /\ store = [id \in RecIds |-> DefaultRecord("call")]
    /\ upd = [i \in {1} |-> IdleUpdate]
    /\ catalog = NoCatalog
    /\ scan = IdleScan

\* the loop over options.searchParams: the parameters that are neither
\* undefined nor null are appended to the URL
SearchParams(searchParams) ==
    IF searchParams = Undef THEN {}
    ELSE {<<k, searchParams[k]>> :
             k \in {f \in DOMAIN searchParams : ~Nullish(searchParams[f])}}

\* request(path, options), called by an operation, up to its first await: the
\* timer is armed and fetch is called, once
Request(operation, options) ==
    LET headers == buildHeaders(call.config, options.headers,
                                isFormData(options.body))
        init == requestInit(options, headers, "abortController.signal")
    IN  /\ call' = [call EXCEPT
                       !.pc = "fetching", !.operation = operation,
                       !.options = options,
                       !.pathname = UrlPathname(options.path),
                       !.init = init, !.timer = "armed",
                       !.delay = Coalesce(options.timeoutMs,
                                          call.defaultTimeoutMs).v]
        /\ wire' = Append(wire, [inv |-> 0, method |-> init.method,
                                 path |-> UrlPathname(options.path),
                                 query |-> SearchParams(options.searchParams),
                                 headers |-> init.headers,
                                 body |-> init.body])

\* request is called
Fetch ==
    /\ call.pc = "idle"
    /\ \E options \in RequestOptions :
          Request([name |-> "request", args |-> options], options)
    /\ UNCHANGED <<entity, store, upd, catalog, scan, other, tool>>

\* setTimeout's callback: abortController.abort()
TimerFires ==
    /\ call.pc \in {"fetching", "reading"}
    /\ call.timer = "armed"
    /\ call' = [call EXCEPT !.timer = "fired",
                            !.aborted = (call.init.signal = "abortController.signal")]
    /\ UNCHANGED <<entity, store, upd, wire, catalog, scan, other, tool>>

\* finally { clearTimeout(timeout) }
clearTimeout(timer) == IF timer = "armed" THEN "cleared" ELSE timer

\* fetch resolves with the status line and the headers; response.text() is awaited
ResponseArrives ==
    /\ call.pc = "fetching"
    /\ ~call.aborted
    /\ \E status \in Statuses, requestId \in RequestIds :
          call' = [call EXCEPT !.pc = "reading",
                               !.response = [status |-> status, requestId |-> requestId]]
    /\ UNCHANGED <<entity, store, upd, wire, catalog, scan, other, tool>>

\* response.text() resolves: the rest of the try block, catch and finally run
TextRead ==
    /\ call.pc = "reading"
    /\ ~call.aborted
    /\ \E text \in BodyTexts :
          LET settled == Settled(call.pathname, call.response.status,
                                 call.response.requestId, text)
              outcome == ClientOperation(settled.outcome)
          IN  call' = [call EXCEPT !.pc = IF outcome.ok THEN "returned" ELSE "thrown",
                                   !.text = Str(text), !.outcome = outcome,
                                   !.log = call.log \o settled.log,
                                   !.timer = clearTimeout(call.timer)]
    /\ UNCHANGED <<entity, store, upd, wire, catalog, scan, other, tool>>

\* the aborted signal rejects the pending fetch or response.text()
AbortRejects ==
    /\ call.pc \in {"fetching", "reading"}
    /\ call.aborted
    /\ LET c == Rejected(AbortError, call.pathname)
           outcome == ClientOperation([ok |-> FALSE, error |-> c.thrown])
       IN  call' = [call EXCEPT !.pc = "thrown", !.outcome = outcome,
                                !.log = call.log \o c.log,
                                !.timer = clearTimeout(call.timer)]
    /\ UNCHANGED <<entity, store, upd, wire, catalog, scan, other, tool>>

\* mutant: a failed connection is tried once more before the error is passed on
ConnectionFailsRetried ==
    /\ call.pc \in {"fetching", "reading"}
    /\ ~call.aborted
    /\ IF Len(wire) < 2
       THEN /\ call' = [call EXCEPT !.pc = "fetching", !.response = Undef]
            /\ wire' = Append(wire, wire[Len(wire)])
       ELSE /\ call' = [call EXCEPT !.pc = "thrown",
                                    !.outcome = [ok |-> FALSE, error |-> NetworkError],
                                    !.timer = clearTimeout(call.timer)]
            /\ wire' = wire
    /\ UNCHANGED <<entity, store, upd, catalog, scan, other, tool>>

\* the connection fails while fetch or response.text() is pending
ConnectionFails ==
    /\ call.pc \in {"fetching", "reading"}
    /\ ~call.aborted
    /\ LET c == Rejected(NetworkError, call.pathname)
           outcome == ClientOperation([ok |-> FALSE, error |-> c.thrown])
       IN  call' = [call EXCEPT !.pc = "thrown", !.outcome = outcome,
                                !.log = call.log \o c.log,
                                !.timer = clearTimeout(call.timer)]
    /\ UNCHANGED <<entity, store, upd, wire, catalog, scan, other, tool>>

NextTransport ==
    \/ Fetch
    \/ TimerFires
    \/ ResponseArrives
    \/ TextRead
    \/ AbortRejects
    \/ ConnectionFails

SpecTransport == InitTransport /\ [][NextTransport]_vars

(***************************************************************************)
(* A client in use: it is constructed with any options, and either request *)
(* is called on it again once a call has settled, or two invocations of    *)
(* resolveActivityTypeId run on it, each suspended while the other runs    *)
(***************************************************************************)
MaxRequests == 2

\* the first activity types of the sample list
FewActivityTypes == SubSeq(ActivityTypeList, 1, 4)

InitScans ==
    /\ catalog \in [kind : {"activityType"}, items : SubLists(FewActivityTypes),
                     perPage : 1..MaxPerPage]
    /\ scan = IdleScan
    /\ other = IdleScan
    /\ tool = NoTool
    /\ entity = "call"
    /\ store = [id \in RecIds |-> DefaultRecord("call")]
    /\ upd = [i \in {1} |-> IdleUpdate]
    /\ wire = <<>>
    /\ call = [IdleCall EXCEPT !.pc = "off"]

\* the invocation that runs is suspended at its await, or has ended, and the
\* other one runs
Switch ==
    /\ other.pc # "off"
    /\ scan # other
    /\ scan' = other
    /\ other' = scan
    /\ UNCHANGED <<entity, store, upd, wire, catalog, call, tool>>

InitRequests ==
    /\ \E o \in {c \in ClientOptions : c.defaultTimeoutMs = Undef} :
          LET client == MonicaClient(o)
          IN  call = IF client.ok
                     THEN [IdleCall EXCEPT
                              !.config = client.value.options,
                              !.defaultTimeoutMs = client.value.defaultTimeoutMs]
                     ELSE [IdleCall EXCEPT !.pc = "unconstructed", !.config = o,
                                           !.outcome = client]
    /\ wire = <<>>
    /\ other = NoScan
    /\ tool = NoTool
    /\ entity = "call"
    /\ store = [id \in RecIds |-> DefaultRecord("call")]
    /\ upd = [i \in {1} |-> IdleUpdate]
    /\ catalog = NoCatalog
    /\ scan = NoScan

\* a call of request has settled and nothing of it is kept but the request on
\* the wire: the client is ready for the next call
NextRequest ==
    /\ call.pc \in {"returned", "thrown"}
    /\ Len(wire) < MaxRequests
    /\ call' = [IdleCall EXCEPT !.config = call.config,
                                !.defaultTimeoutMs = call.defaultTimeoutMs]
    /\ UNCHANGED <<entity, store, upd, wire, catalog, scan, other, tool>>

InitClient == InitRequests \/ InitScans

NextClient ==
    \/ Fetch
    \/ TimerFires
    \/ ResponseArrives
    \/ TextRead
    \/ AbortRejects
    \/ ConnectionFails
    \/ NextRequest
    \/ StartActivityLookup
    \/ PageOk
    \/ PageFail
    \/ Switch

SpecClient == InitClient /\ [][NextClient]_vars

(***************************************************************************)
(* The layer as a whole: a run is one update, one resolver call or one     *)
(* plain operation, which is one call of request; the two other parts are  *)
(* out of use in that run.                                                 *)
(***************************************************************************)
InitLayer ==
    \/ /\ entity \in Kinds
       /\ store \in [RecIds -> ExistingRecords(entity)]
       /\ store[2] = DefaultRecord(entity)
       /\ upd = [i \in {1} |-> IdleUpdate]
       /\ wire = <<>>
       /\ other = NoScan
       /\ tool = NoTool
       /\ catalog = NoCatalog
       /\ scan = [IdleScan EXCEPT !.pc = "off"]
       /\ call = [IdleCall EXCEPT !.pc = "off"]
    \/ /\ \E k \in ScanKinds :
             catalog \in [kind : {k}, items : ListsOf(EntryPool(k), MaxItems),
                          perPage : 1..MaxPerPage]
       /\ scan = IdleScan
       /\ entity = "call"
       /\ store = [id \in RecIds |-> DefaultRecord("call")]
       /\ upd = [i \in {1} |-> [IdleUpdate EXCEPT !.pc = "off"]]
       /\ wire = <<>>
       /\ other = NoScan
       /\ tool = NoTool
       /\ call = [IdleCall EXCEPT !.pc = "off"]
    \/ /\ \E o \in BearerOptions :
             call = [IdleCall EXCEPT !.config = o,
                                     !.defaultTimeoutMs = defaultTimeoutMs(o)]
       /\ wire = <<>>
       /\ other = NoScan
       /\ tool = NoTool
       /\ entity = "call"
       /\ store = [id \in RecIds |-> DefaultRecord("call")]
       /\ upd = [i \in {1} |-> [IdleUpdate EXCEPT !.pc = "off"]]
       /\ catalog = NoCatalog
       /\ scan = [IdleScan EXCEPT !.pc = "off"]

NextLayer ==
    \/ \E i \in DOMAIN upd : StartUpdate(i)
    \/ \E i \in DOMAIN upd : GetOk(i)
    \/ \E i \in DOMAIN upd : GetFail(i)
    \/ \E i \in DOMAIN upd : PutOk(i)
    \/ \E i \in DOMAIN upd : PutFail(i)
    \/ StartResolve
    \/ PageOk
    \/ PageFail
    \/ Fetch
    \/ TimerFires
    \/ ResponseArrives
    \/ TextRead
    \/ AbortRejects
    \/ ConnectionFails

SpecLayer == InitLayer /\ [][NextLayer]_vars

(***************************************************************************)
(* The operations of MonicaClient that check or choose before they call    *)
(* request: activities, the lists of one contact, the lists with an        *)
(* optional contact                                                        *)
(***************************************************************************)
\* the options an operation passes to request
RequestOf(method, path, searchParams, body) ==
    [path |-> path, method |-> method, body |-> body, headers |-> Undef,
     searchParams |-> searchParams, timeoutMs |-> Undef]

\* JSON.stringify(body), as the body of a request: a string, which holds the
\* members of the body
JsonText(body) == [t |-> "string", v |-> JsonStringify(body)]

\* `contacts/${contactId}/<kind>`
NestedPath(contactId, kind) == <<"contacts/", Digits[contactId.v + 1], "/", kind>>

ContactIds == {Num(1), Num(2)}

ActivityPayloads ==
    [activityTypeId : {Num(21)}, summary : {Str(sA)}, description : {Undef},
     happenedAt : {Str(sDate1)}, contactIds : {Arr(<<>>), Arr(<<Num(1)>>)},
     emotionIds : {Undef, Arr(<<>>), Arr(<<Num(3)>>)}]

\* mutant: the contacts of the payload are not looked at
buildActivityRequestBodyUnchecked(payload) ==
    Return([activity_type_id |-> payload.activityTypeId,
            summary |-> payload.summary,
            description |-> Coalesce(payload.description, Null),
            happened_at |-> payload.happenedAt,
            contacts |-> payload.contactIds])

buildActivityRequestBody(payload) ==
    IF Len(payload.contactIds.v) = 0
    THEN Throw("Error",
               "Provide at least one contact ID when creating or updating an activity.")
    ELSE LET body == [activity_type_id |-> payload.activityTypeId,
                      summary |-> payload.summary,
                      description |-> Coalesce(payload.description, Null),
                      happened_at |-> payload.happenedAt,
                      contacts |-> payload.contactIds]
         IN  Return(IF Truthy(payload.emotionIds) /\ Len(payload.emotionIds.v) # 0
                    THEN body @@ [emotions |-> payload.emotionIds]
                    ELSE body)

\* an operation throws before it calls request
Refuse(operation, thrown) ==
    /\ call' = [call EXCEPT !.pc = "thrown", !.operation = operation,
                            !.outcome = thrown]
    /\ wire' = wire

\* createActivity(payload)
CreateActivity ==
    /\ call.pc = "idle"
    /\ \E payload \in ActivityPayloads :
          LET body == buildActivityRequestBody(payload)
              operation == [name |-> "createActivity", args |-> payload]
          IN  IF body.ok
              THEN Request(operation,
                           RequestOf("POST", <<"activities">>, Undef,
                                     JsonText(body.value)))
              ELSE Refuse(operation, body)
    /\ UNCHANGED <<entity, store, upd, catalog, scan, other, tool>>

\* updateActivity(activityId, payload)
UpdateActivity ==
    /\ call.pc = "idle"
    /\ \E activityId \in {Num(7)}, payload \in ActivityPayloads :
          LET body == buildActivityRequestBody(payload)
              operation == [name |-> "updateActivity",
                            args |-> payload @@ [activityId |-> activityId]]
          IN  IF body.ok
              THEN Request(operation,
                           RequestOf("PUT",
                                     <<"activities/", Digits[activityId.v + 1]>>,
                                     Undef, JsonText(body.value)))
              ELSE Refuse(operation, body)
    /\ UNCHANGED <<entity, store, upd, catalog, scan, other, tool>>

sAll == <<"a","l","l">>

\* the options of a list operation
ListOptions ==
    {o \in [contactId : {Undef} \cup ContactIds, limit : {Undef, Num(10)},
            page : {Undef, Num(2)},
            status : {Undef, Str(sOpen), Str(sCompleted), Str(sAll)}] :
        (o.limit = Undef) = (o.page = Undef)}

\* listAddresses(options) and listContactFields(options)
listOfContact(kind, options) ==
    IF Falsy(options.contactId)
    THEN Throw("Error",
               IF kind = "addresses" THEN "contactId is required when listing addresses."
               ELSE "contactId is required when listing contact fields.")
    ELSE Return(RequestOf("GET", NestedPath(options.contactId, kind),
                          [limit |-> options.limit, page |-> options.page], Undef))

ListOfContact(kind) ==
    /\ call.pc = "idle"
    /\ \E options \in {o \in ListOptions : o.status = Undef} :
          LET checked == listOfContact(kind, options)
              operation == [name |-> kind, args |-> options]
          IN  IF checked.ok
              THEN Request(operation, checked.value)
              ELSE Refuse(operation, checked)
    /\ UNCHANGED <<entity, store, upd, catalog, scan, other, tool>>

ListAddresses == ListOfContact("addresses")

ListContactFields == ListOfContact("contactfields")

\* the list operations with an optional contactId
ListKinds ==
    {"tasks", "conversations", "calls", "reminders", "activities", "documents",
     "photos", "gifts", "debts"}

\* listTasks: sharedSearchParams
TaskSearchParams(options) ==
    LET status == Coalesce(options.status, Str(sOpen))
    IN  [limit |-> options.limit, page |-> options.page,
         completed |-> IF status = Str(sOpen) THEN Num(0)
                       ELSE IF status = Str(sCompleted) THEN Num(1)
                       ELSE Undef]

\* listTasks, listConversations, listCalls, listReminders, listActivities,
\* listDocuments, listPhotos, listGifts, listDebts: the request of each
listOperation(kind, options) ==
    IF kind \in {"gifts", "debts"}
    THEN RequestOf("GET", <<kind>>,
                   [contact_id |-> options.contactId, limit |-> options.limit,
                    page |-> options.page], Undef)
    ELSE LET searchParams == IF kind = "tasks" THEN TaskSearchParams(options)
                             ELSE [limit |-> options.limit, page |-> options.page]
         IN  IF Truthy(options.contactId)
             THEN RequestOf("GET", NestedPath(options.contactId, kind),
                            searchParams, Undef)
             ELSE RequestOf("GET", <<kind>>, searchParams, Undef)

List ==
    /\ call.pc = "idle"
    /\ \E kind \in ListKinds :
          \E options \in {o \in ListOptions : o.status # Undef => kind = "tasks"} :
             Request([name |-> kind, args |-> options], listOperation(kind, options))
    /\ UNCHANGED <<entity, store, upd, catalog, scan, other, tool>>

NextOperations ==
    \/ \E i \in DOMAIN upd : StartUpdate(i)
    \/ \E i \in DOMAIN upd : GetOk(i)
    \/ \E i \in DOMAIN upd : GetFail(i)
    \/ \E i \in DOMAIN upd : PutOk(i)
    \/ \E i \in DOMAIN upd : PutFail(i)
    \/ StartResolve
    \/ PageOk
    \/ PageFail
    \/ CreateActivity
    \/ UpdateActivity
    \/ ListAddresses
    \/ ListContactFields
    \/ List
    \/ TimerFires
    \/ ResponseArrives
    \/ TextRead
    \/ AbortRejects
    \/ ConnectionFails

SpecOperations == InitLayer /\ [][NextOperations]_vars

(***************************************************************************)
(* The tool handlers that resolve a name before they create a record       *)
(***************************************************************************)
\* the create branches that call a resolver: the resolver, the path of the
\* create request, the member of its body that takes the identifier, and
\* whether the call of the resolver stands in a try block
Tools ==
    {[name |-> "contact profile", kind |-> "gender", path |-> "contacts",
      member |-> "gender_id", tries |-> FALSE],
     [name |-> "contact field", kind |-> "contactFieldType", path |-> "contactfields",
      member |-> "contact_field_type_id", tries |-> FALSE],
     [name |-> "contact address", kind |-> "country", path |-> "addresses",
      member |-> "country", tries |-> FALSE],
     [name |-> "activity", kind |-> "activityType", path |-> "activities",
      member |-> "activity_type_id", tries |-> FALSE],
     [name |-> "relationship", kind |-> "relationshipType", path |-> "relationships",
      member |-> "relationship_type_id", tries |-> FALSE],
     [name |-> "conversation", kind |-> "contactFieldType", path |-> "conversations",
      member |-> "contact_field_type_id", tries |-> TRUE]}

ToolNamed(name) == CHOOSE t \in Tools : t.name = name

\* { isError: true, content: [{ type: 'text', text: error.message }] }
FailureResult(error) == [isError |-> TRUE, text |-> error.message]

\* what a handler does with what the call of its resolver threw: the result it
\* returns, or the error that leaves the handler
Caught(tries, error) ==
    IF tries
    THEN [pc |-> "returned", result |-> FailureResult(error)]
    ELSE [pc |-> "escaped", result |-> error]

InitTools ==
    /\ \E k \in ScanKinds :
          catalog \in [kind : {k}, items : ListsOf(EntryPool(k), MaxItems),
                       perPage : 1..MaxPerPage]
    /\ scan = IdleScan
    /\ tool = IdleTool
    /\ other = NoScan
    /\ entity = "call"
    /\ store = [id \in RecIds |-> DefaultRecord("call")]
    /\ upd = [i \in {1} |-> IdleUpdate]
    /\ wire = <<>>
    /\ call = IdleCall

\* a tool is invoked with action create: its handler calls the resolver
InvokeTool ==
    /\ tool.pc = "idle"
    /\ scan.pc = "idle"
    /\ \E t \in {u \in Tools : u.kind = catalog.kind} :
          /\ tool' = [tool EXCEPT !.pc = "resolving", !.name = t.name]
          /\ \E args \in ResolverArgs(catalog.kind) : CallResolver(scan, args)
    /\ UNCHANGED <<entity, store, upd, catalog, call, other>>

\* the resolver has returned or thrown: the handler goes on to the create
\* request, or its catch block runs, or the error leaves the handler
ToolResumes ==
    /\ tool.pc = "resolving"
    /\ scan.pc \in {"done", "failed"}
    /\ LET t == ToolNamed(tool.name)
       IN  IF scan.outcome.ok
           THEN /\ tool' = [tool EXCEPT !.pc = "awaitCreate"]
                /\ wire' = Append(wire,
                                  [inv |-> 0, method |-> "POST", path |-> <<t.path>>,
                                   query |-> [limit |-> 0, page |-> 0],
                                   body |-> [member |-> t.member,
                                             value |-> scan.outcome.value]])
           ELSE /\ tool' = [tool EXCEPT
                               !.pc = Caught(t.tries, scan.outcome.error).pc,
                               !.result = Caught(t.tries, scan.outcome.error).result]
                /\ wire' = wire
    /\ UNCHANGED <<entity, store, upd, catalog, scan, call, other>>

\* the create request is answered: the handler returns the record
CreateOk ==
    /\ tool.pc = "awaitCreate"
    /\ tool' = [tool EXCEPT !.pc = "returned",
                            !.result = [isError |-> FALSE, text |-> "Created"]]
    /\ UNCHANGED <<entity, store, upd, wire, catalog, scan, call, other>>

\* the create request fails: no handler has it in a try block
CreateFail ==
    /\ tool.pc = "awaitCreate"
    /\ \E e \in TransportErrors :
          tool' = [tool EXCEPT !.pc = "escaped", !.result = e]
    /\ UNCHANGED <<entity, store, upd, wire, catalog, scan, call, other>>

NextTools ==
    \/ InvokeTool
    \/ PageOk
    \/ PageFail
    \/ ToolResumes
    \/ CreateOk
    \/ CreateFail

SpecTools == InitTools /\ [][NextTools]_vars

(***************************************************************************)
(* Properties of merge-before-update                                       *)
(***************************************************************************)
\* the caller's field, the fetched record's field and the write body's field
FieldMap(kind) ==
    CASE kind = "call" ->
           {<<"contactId", "contact_id", "contact_id">>,
            <<"calledAt", "called_at", "called_at">>,
            <<"content", "content", "content">>}
      [] kind = "reminder" ->
           {<<"title", "title", "title">>,
            <<"description", "description", "description">>,
            <<"nextExpectedDate", "next_expected_date", "next_expected_date">>,
            <<"frequencyType", "frequency_type", "frequency_type">>,
            <<"frequencyNumber", "frequency_number", "frequency_number">>,
            <<"contactId", "contact_id", "contact_id">>}
      [] kind = "task" ->
           {<<"title", "title", "title">>,
            <<"description", "description", "description">>,
            <<"status", "completed", "completed">>,
            <<"completedAt", "completed_at", "completed_at">>,
            <<"contactId", "contact_id", "contact_id">>}
      [] kind = "note" ->
           {<<"contactId", "contact_id", "contact_id">>,
            <<"body", "body", "body">>,
            <<"isFavorited", "is_favorited", "is_favorited">>}

\* the fields a patch may set to null
NullableFields(kind) ==
    CASE kind = "call" -> {"content"}
      [] kind = "reminder" -> {"description", "frequencyNumber"}
      [] kind = "task" -> {"description", "completedAt"}
      [] kind = "note" -> {}

\* the field a legal record needs, as the caller and as the record name it
RequiredField(kind) ==
    CASE kind = "call" -> <<"calledAt", "called_at">>
      [] kind = "reminder" -> <<"nextExpectedDate", "next_expected_date">>
      [] kind = "task" -> <<"contactId", "contact_id">>
      [] kind = "note" -> <<"contactId", "contact_id">>

DateFields == {"calledAt", "nextExpectedDate"}

\* the wire's 0/1 encoding of a flag (task status, note isFavorited); any other
\* value goes to the wire as it is
WireValue(v) ==
    IF v \in {Bool(TRUE), Str(sCompleted)} THEN Num(1)
    ELSE IF v \in {Bool(FALSE), Str(sOpen)} THEN Num(0)
    ELSE v

Requests(i) == SelectSeq(wire, LAMBDA r : r.inv = i)

HasPut(i) == \E k \in 1..Len(wire) : wire[k].inv = i /\ wire[k].method = "PUT"

Fetched(i) == upd[i].existing # Undef

BodyValue(body, wf) == IF wf \in DOMAIN body THEN body[wf] ELSE Undef

IsValidationError(e) ==
    /\ e.class = "Error"
    /\ e.message \in {"calledAt is required to update a call.",
                      "nextExpectedDate is required to update a reminder.",
                      "contactId is required to update a task.",
                      "contactId is required to update a note."}

\* the fetched record's value of a field as the wire writes it: a flag as 0/1, a
\* timestamp as its date, the first DateLen characters
Carried(i, m) ==
    IF m[1] \in DateFields /\ upd[i].existing[m[2]].t = "string"
    THEN SliceTo(upd[i].existing[m[2]], DateLen)
    ELSE WireValue(upd[i].existing[m[2]])

\* C1: in every PUT of a merge-before-update, each field absent from the patch has
\* the fetched record's value and each field present in the patch has the patch's
\* value.
C1_MergeKeepsAbsentTakesPresent ==
    \A i \in DOMAIN upd :
        HasPut(i) =>
            \A m \in FieldMap(entity) :
                BodyValue(LastPut(i).body, m[3]) =
                    IF upd[i].patch[m[1]] = Undef
                    THEN Carried(i, m)
                    ELSE WireValue(upd[i].patch[m[1]])

\* C2: an update invocation issues its GET first, at most one PUT, the PUT on the
\* path of the GET and only once the GET has been answered; none when the GET failed.
C2_GetThenAtMostOnePut ==
    \A i \in DOMAIN upd :
        LET reqs == Requests(i)
        IN  /\ Len(reqs) <= 2
            /\ upd[i].pc = "idle" <=> Len(reqs) = 0
            /\ Len(reqs) >= 1 =>
                  /\ reqs[1].method = "GET"
                  /\ reqs[1].path = <<Collection(entity), upd[i].id>>
            /\ Len(reqs) = 2 =>
                  /\ reqs[2].method = "PUT"
                  /\ reqs[2].path = reqs[1].path
                  /\ Fetched(i)
            /\ ~Fetched(i) => Len(reqs) <= 1

\* reached: a GET and then a PUT on record 2; and a failed GET
C2_Witness ==
    \E i \in DOMAIN upd :
        /\ upd[i].pc = "done"
        /\ upd[i].id = 2
        /\ Len(Requests(i)) = 2

RequiredMissing(i) ==
    /\ Fetched(i)
    /\ Nullish(upd[i].patch[RequiredField(entity)[1]])
    /\ Nullish(upd[i].existing[RequiredField(entity)[2]])

\* C3: when neither the patch nor the fetched record supplies the required field,
\* the update fails with a validation error and sends no PUT.
C3_MissingRequiredFailsBeforeWrite ==
    \A i \in DOMAIN upd :
        RequiredMissing(i) =>
            /\ upd[i].pc = "failed"
            /\ IsValidationError(upd[i].outcome)
            /\ ~HasPut(i)

C3_Witness ==
    \E i \in DOMAIN upd :
        /\ RequiredMissing(i)
        /\ entity = "call"
        /\ upd[i].pc = "failed"

ClearContentCase(i) ==
    /\ entity = "call"
    /\ Fetched(i)
    /\ upd[i].patch = [contactId |-> Undef, calledAt |-> Undef, content |-> Null]
    /\ upd[i].existing.called_at = Str(sDate1)
    /\ upd[i].existing.content = Str(sHi)

\* C4: updateCall with patch {content: null} on {calledAt: "2024-01-01",
\* content: "hi"} writes called_at "2024-01-01" and content null.
C4_NullContentClears ==
    \A i \in DOMAIN upd :
        ClearContentCase(i) =>
            /\ HasPut(i)
            /\ BodyValue(LastPut(i).body, "called_at") = Str(sDate1)
            /\ BodyValue(LastPut(i).body, "content") = Null

C4_Witness ==
    \E i \in DOMAIN upd : ClearContentCase(i) /\ upd[i].pc = "done"

\* C5: for every nullable patch field, null in the patch gives null in the body
\* whatever the record holds, and the field left out gives the record's value.
C5_NullClearsAbsentKeeps ==
    \A i \in DOMAIN upd :
        HasPut(i) =>
            \A m \in FieldMap(entity) :
                m[1] \in NullableFields(entity) =>
                    /\ upd[i].patch[m[1]] = Null =>
                          BodyValue(LastPut(i).body, m[3]) = Null
                    /\ upd[i].patch[m[1]] = Undef =>
                          BodyValue(LastPut(i).body, m[3]) = upd[i].existing[m[2]]

WireFields(kind) == {m[3] : m \in FieldMap(kind)}

\* C6: a PUT carries no version or concurrency token, and for the fields its
\* patch left out it carries what its own GET returned, whatever another
\* invocation has written to the record since.
C6_PutCarriesOwnSnapshot ==
    \A i \in DOMAIN upd :
        HasPut(i) =>
            /\ DOMAIN LastPut(i).body \subseteq WireFields(entity)
            /\ DOMAIN LastPut(i) = {"inv", "method", "path", "body"}
            /\ \A m \in FieldMap(entity) :
                  upd[i].patch[m[1]] = Undef =>
                      BodyValue(LastPut(i).body, m[3]) = Carried(i, m)

\* reached: both invocations succeeded on the same record, invocation i changed a
\* field that j left out, and the record holds j's body with the value j had
\* fetched before i's PUT: i's update is lost.
C6_Witness ==
    \E i, j \in DOMAIN upd :
        /\ i # j
        /\ upd[i].pc = "done" /\ upd[j].pc = "done"
        /\ upd[i].id = upd[j].id
        /\ \E m \in FieldMap(entity) :
              /\ upd[i].patch[m[1]] # Undef
              /\ upd[j].patch[m[1]] = Undef
              /\ BodyValue(LastPut(j).body, m[3]) = Carried(j, m)
              /\ BodyValue(LastPut(j).body, m[3]) # BodyValue(LastPut(i).body, m[3])
              /\ store[upd[i].id] = ServerApply(entity, store[upd[i].id], LastPut(j).body)
              /\ store[upd[i].id] # ServerApply(entity, store[upd[i].id], LastPut(i).body)

(***************************************************************************)
(* Properties of the name resolvers                                        *)
(***************************************************************************)
RequestedPages == [k \in 1..Len(wire) |-> wire[k].query.page]

\* the scan has read at least one page
PageSeen == scan.last # Undef

\* C7: the first page requested is 1, each later one is the one before plus 1,
\* and once a page reports current_page >= last_page no further page is requested.
C7_ForwardUntilLastPage ==
    /\ \A k \in 1..Len(wire) : RequestedPages[k] = k
    /\ scan.pc = "awaitPage" => scan.page = Len(wire)
    /\ PageSeen /\ scan.last.meta.current_page >= scan.last.meta.last_page =>
          /\ scan.pc # "awaitPage"
          /\ Len(wire) = scan.last.meta.current_page

\* reached: a scan of two or more pages that ended on the last one without a match
C7_Witness ==
    /\ PageSeen
    /\ scan.pc = "failed"
    /\ Len(wire) >= 2
    /\ scan.last.meta.current_page = scan.last.meta.last_page
    /\ scan.outcome.error = NoMatchError(catalog.kind, scan.args, scan.suggestions)

\* the entries of the page just read whose normalized name is the normalized name
\* the caller gave
NameHits ==
    IF Nullish(scan.args.name) THEN {}
    ELSE {k \in 1..Len(scan.last.data) :
             normalizeLookupValue(scan.last.data[k].name.v) =
                 normalizeLookupValue(scan.args.name.v)}

\* C8 as stated: for every kind, a page holding an entry whose normalized name is
\* the normalized target ends the scan with the first such entry's identifier.
C8_FirstNameHitReturned ==
    PageSeen /\ NameHits # {} =>
        /\ scan.pc = "done"
        /\ scan.outcome = Return(scan.last.data[SetMin(NameHits)].id)
        /\ Len(wire) = scan.last.meta.current_page

\* a target the caller gave, as the country lookup compares it
GivenTarget(x) ==
    IF Nullish(x) \/ Trim(x.v) = <<>> THEN Undef ELSE Str(ToLowerCase(Trim(x.v)))

\* the entries of the page just read that match: by normalized name for gender,
\* contact field type, activity type and relationship type; for a country by its
\* lower-cased ISO code or its lower-cased name against the targets given
MatchingEntries ==
    IF catalog.kind = "country"
    THEN {k \in 1..Len(scan.last.data) :
             \/ /\ GivenTarget(scan.args.iso) # Undef
                /\ Str(ToLowerCase(scan.last.data[k].iso.v)) = GivenTarget(scan.args.iso)
             \/ /\ GivenTarget(scan.args.name) # Undef
                /\ Str(ToLowerCase(scan.last.data[k].name.v)) = GivenTarget(scan.args.name)}
    ELSE NameHits

\* C8 (amended): a page holding a matching entry ends the scan with the identifier
\* of the first matching entry in page order, and no further page is requested,
\* also when the page reports current_page < last_page.
C8_FirstMatchReturned ==
    PageSeen /\ MatchingEntries # {} =>
        /\ scan.pc = "done"
        /\ scan.outcome = Return(scan.last.data[SetMin(MatchingEntries)].id)
        /\ Len(wire) = scan.last.meta.current_page

\* reached: two matching entries on a page that is not the last
C8_Witness ==
    /\ PageSeen
    /\ Cardinality(MatchingEntries) >= 2
    /\ scan.last.meta.current_page < scan.last.meta.last_page
    /\ scan.pc = "done"

\* the caller gave an identifier: a number, or for a country a non-empty string
IdGiven ==
    /\ scan.pc # "idle"
    /\ IF catalog.kind = "country"
       THEN scan.args.id.t = "string" /\ scan.args.id.v # <<>>
       ELSE scan.args.id.t = "number"

\* C9: with an identifier given, every resolver returns that identifier and
\* issues no request, whatever name is given with it.
C9_GivenIdReturnedWithoutRequest ==
    IdGiven =>
        /\ scan.pc = "done"
        /\ scan.outcome = Return(scan.args.id)
        /\ wire = <<>>

\* reached: the identifier 0 given together with a name
C9_Witness ==
    /\ IdGiven
    /\ scan.args.id = Num(0)
    /\ scan.args.name = Str(sOther)
    /\ scan.pc = "done"

NothingGiven ==
    /\ scan.pc # "idle"
    /\ Nullish(scan.args.id)
    /\ Nullish(scan.args.name)
    /\ Nullish(scan.args.iso)

IsProvideError(r) ==
    /\ ~r.ok
    /\ r.error.class = "Error"
    /\ r.error.message \in {"Provide genderId or genderName.",
                            "Provide contactFieldTypeId or contactFieldTypeName.",
                            "Provide activityTypeId or activityTypeName.",
                            "Provide relationshipTypeId or relationshipTypeName."}

\* C10 as stated: with nothing given, gender returns absent and every other
\* resolver raises a validation error, without a request.
C10_OnlyGenderOptional ==
    NothingGiven =>
        /\ wire = <<>>
        /\ IF catalog.kind = "gender"
           THEN scan.pc = "done" /\ scan.outcome = Return(Undef)
           ELSE scan.pc = "failed" /\ IsProvideError(scan.outcome)

\* C10 (amended): with nothing given, gender returns undefined and country
\* returns null, both without error; contact field type, activity type and
\* relationship type raise a validation error; none issues a request.
C10_GenderAndCountryOptional ==
    NothingGiven =>
        /\ wire = <<>>
        /\ CASE catalog.kind = "gender" ->
                  scan.pc = "done" /\ scan.outcome = Return(Undef)
             [] catalog.kind = "country" ->
                  scan.pc = "done" /\ scan.outcome = Return(Null)
             [] OTHER -> scan.pc = "failed" /\ IsProvideError(scan.outcome)

\* reached: a country lookup with nothing given has returned
C10_Witness ==
    /\ NothingGiven
    /\ catalog.kind = "country"
    /\ scan.pc = "done"

\* the scan has read its last page and found no match on it
Exhausted ==
    /\ PageSeen
    /\ scan.pc = "failed"
    /\ scan.last.meta.current_page >= scan.last.meta.last_page
    /\ MatchingEntries = {}

\* the argument a failed lookup was looking for
AttemptedTarget ==
    IF catalog.kind = "country" /\ GivenTarget(scan.args.iso) # Undef
    THEN scan.args.iso
    ELSE scan.args.name

NoMatchMessages ==
    {"No gender matched", "No country matched ISO code", "No country matched name",
     "No contact field type matched", "No activity type matched",
     "No relationship type matched"}

\* C11: a scan that has read every page up to the last one without a match
\* fails with an error that names the target the caller gave, and that error is
\* not of the kind raised for a non-2xx answer (MonicaApiError).
C11_NoMatchIsItsOwnError ==
    Exhausted =>
        /\ scan.outcome.ok = FALSE
        /\ scan.outcome.error.class = "Error"
        /\ scan.outcome.error.class # "MonicaApiError"
        /\ scan.outcome.error.message \in NoMatchMessages
        /\ Truthy(AttemptedTarget)
        /\ scan.outcome.error.target = AttemptedTarget
        /\ Len(wire) = scan.last.meta.last_page

\* reached: a contact field type lookup that read two pages or more and failed
C11_Witness ==
    /\ Exhausted
    /\ catalog.kind = "contactFieldType"
    /\ Len(wire) >= 2
    /\ scan.outcome.error.target = Str(sNone)

\* a second call of the resolver, with the arguments of a first one that returned
\* a match
SecondCall == scan.first # Undef

Folded(s) == ToLowerCase(Trim(s))

Supplied(x) == ~Nullish(x) /\ Trim(x.v) # <<>>

\* the entries of the page just read that differ from a supplied target in
\* letter case and surrounding whitespace only
FoldedHits ==
    {k \in 1..Len(scan.last.data) :
        \/ /\ Supplied(scan.args.name)
           /\ Folded(scan.last.data[k].name.v) = Folded(scan.args.name.v)
        \/ /\ catalog.kind = "country"
           /\ Supplied(scan.args.iso)
           /\ Folded(scan.last.data[k].iso.v) = Folded(scan.args.iso.v)}

\* C13 as stated: for every kind, an entry that differs from the target in letter
\* case or surrounding whitespace only, on either side, is a match.
C13_FoldedAndTrimmedBothSides ==
    PageSeen /\ FoldedHits # {} => scan.pc = "done"

\* the entries of the page just read that match when the target is trimmed and
\* both sides are lower-cased, the stored name being trimmed as well for every
\* kind but country
TargetTrimmedHits ==
    {k \in 1..Len(scan.last.data) :
        IF catalog.kind = "country"
        THEN \/ /\ Supplied(scan.args.iso)
                /\ ToLowerCase(scan.last.data[k].iso.v) = Folded(scan.args.iso.v)
             \/ /\ Supplied(scan.args.name)
                /\ ToLowerCase(scan.last.data[k].name.v) = Folded(scan.args.name.v)
        ELSE /\ ~Nullish(scan.args.name)
             /\ Folded(scan.last.data[k].name.v) = Folded(scan.args.name.v)}

\* C13 (amended): matching ignores letter case on both sides and whitespace
\* around the target; whitespace around the stored name is ignored for gender,
\* contact field type, activity type and relationship type, not for a country,
\* whose stored ISO code and name are lower-cased only.  A page with such an
\* entry ends the scan, the scan returns nothing but such an entry, and the ISO
\* code "FR" matches the entry {iso: "fr", name: "France"}.
C13_FoldedTargetTrimmed ==
    /\ PageSeen /\ TargetTrimmedHits # {} => scan.pc = "done"
    /\ PageSeen /\ scan.pc = "done" =>
          \E k \in TargetTrimmedHits : scan.outcome = Return(scan.last.data[k].id)
    /\ /\ PageSeen
       /\ catalog.kind = "country"
       /\ scan.args.iso = Str(<<"F","R">>)
       /\ \E k \in 1..Len(scan.last.data) :
             /\ scan.last.data[k].iso = Str(<<"f","r">>)
             /\ scan.last.data[k].name = Str(sFrance)
       => scan.pc = "done"

\* reached: the country lookup by ISO code "FR" alone has returned the entry
\* {iso: "fr", name: "France"}
C13_Witness ==
    /\ PageSeen
    /\ catalog.kind = "country"
    /\ scan.args = [id |-> Undef, iso |-> Str(<<"F","R">>), name |-> Undef]
    /\ scan.pc = "done"
    /\ scan.outcome = Return(Str(<<"F","R">>))
    /\ \E k \in 1..Len(scan.last.data) :
          scan.last.data[k] = [id |-> Str(<<"F","R">>), iso |-> Str(<<"f","r">>),
                               name |-> Str(sFrance)]

IsoHit(entry) ==
    Supplied(scan.args.iso) /\ ToLowerCase(entry.iso.v) = Folded(scan.args.iso.v)

NameHit(entry) ==
    Supplied(scan.args.name) /\ ToLowerCase(entry.name.v) = Folded(scan.args.name.v)

\* the places in the whole list, in scan order, of the countries that match a
\* supplied ISO code or a supplied name
CountryHits ==
    {k \in 1..Len(catalog.items) :
        IsoHit(catalog.items[k]) \/ NameHit(catalog.items[k])}

\* C14: a country lookup that returns after a scan returns the first entry, in
\* scan order, that matches the supplied ISO code or the supplied name, whichever
\* of the two it matches; a target that was not supplied matches nothing; a scan
\* that ends without a match had no such entry.
C14_FirstOfEitherTarget ==
    catalog.kind = "country" /\ PageSeen =>
        /\ scan.pc = "done" =>
              /\ CountryHits # {}
              /\ scan.outcome = Return(catalog.items[SetMin(CountryHits)].id)
        /\ Exhausted => CountryHits = {}

\* reached: ISO code and name both supplied, the entry returned matches the name
\* only and a later entry matches the ISO code
C14_Witness ==
    /\ catalog.kind = "country"
    /\ PageSeen
    /\ scan.pc = "done"
    /\ Supplied(scan.args.iso)
    /\ Supplied(scan.args.name)
    /\ CountryHits # {}
    /\ ~IsoHit(catalog.items[SetMin(CountryHits)])
    /\ \E k \in CountryHits : k > SetMin(CountryHits) /\ IsoHit(catalog.items[k])

(***************************************************************************)
(* Properties of the activity type suggestions                             *)
(***************************************************************************)
\* the lookup failed because no activity type matched
NoActivityTypeMatched ==
    /\ catalog.kind = "activityType"
    /\ scan.pc = "failed"
    /\ scan.outcome.error.message = "No activity type matched"

CatalogNames == {catalog.items[k].name.v : k \in 1..Len(catalog.items)}

SuggestedNames ==
    {scan.outcome.error.suggestions[k] : k \in 1..Len(scan.outcome.error.suggestions)}

\* "Meetng" was looked up in a catalog of "Meeting" and "Meal" and not found
MeetngCase ==
    /\ NoActivityTypeMatched
    /\ scan.args.name = Str(sMeetng)
    /\ CatalogNames = {sMeeting, sMeal}

\* C15 as stated: looking up "Meetng" among "Meeting" and "Meal" fails with an
\* error whose suggestions include "Meeting" and not "Meal".
C15_TypoSuggestsMeeting ==
    MeetngCase => sMeeting \in SuggestedNames /\ sMeal \notin SuggestedNames

\* C15 (amended): looking up "Meetng" among "Meeting" and "Meal" fails with the
\* no-match error and no suggestion at all: neither name contains "meetng" nor is
\* contained in it.
C15_TypoSuggestsNothing ==
    MeetngCase =>
        /\ scan.outcome.error.class = "Error"
        /\ scan.outcome.error.target = Str(sMeetng)
        /\ scan.outcome.error.suggestions = <<>>

\* reached: that lookup has failed after reading the whole catalog
C15_Witness ==
    /\ MeetngCase
    /\ PageSeen
    /\ Len(wire) = scan.last.meta.last_page

\* one name contains the other once both are trimmed and lower-cased
Near(name, target) ==
    \/ Includes(Folded(name), Folded(target))
    \/ Includes(Folded(target), Folded(name))

\* the places in the whole list of the first entry of each near name
FirstNear ==
    {k \in 1..Len(catalog.items) :
        /\ Near(catalog.items[k].name.v, scan.args.name.v)
        /\ \A j \in 1..(k - 1) : catalog.items[j].name # catalog.items[k].name}

\* the near names, each once, in the order of the list
Candidates ==
    [p \in 1..Cardinality(FirstNear) |->
        catalog.items[CHOOSE k \in FirstNear :
                          Cardinality({j \in FirstNear : j <= k}) = p].name.v]

\* C16: when the activity type lookup fails for want of a match, the suggestions
\* are the first five, at most, of the names of the whole list that contain the
\* normalized target or are contained in it, each name once, in the order in
\* which the scan came upon them.
C16_FirstFiveNearNames ==
    NoActivityTypeMatched =>
        /\ Len(scan.outcome.error.suggestions) <= 5
        /\ scan.outcome.error.suggestions =
              SubSeq(Candidates, 1, Min(5, Len(Candidates)))

\* reached: more than five near names, one of them listed twice, on several pages
C16_Witness ==
    /\ NoActivityTypeMatched
    /\ Cardinality(FirstNear) > 5
    /\ Len(scan.outcome.error.suggestions) = 5
    /\ \E j, k \in 1..Len(catalog.items) :
          j # k /\ catalog.items[j].name = catalog.items[k].name
                /\ Near(catalog.items[j].name.v, scan.args.name.v)
    /\ Len(wire) >= 2

(***************************************************************************)
(* Properties of MonicaClient.request                                      *)
(***************************************************************************)
\* request has returned or thrown
Settling == call.pc \in {"returned", "thrown"}

\* the whole body was read before anything ended the call
BodyWasRead == Settling /\ call.text # Undef

\* what the caller is to get for a body: nothing for an empty one, the parsed
\* value for JSON, the text itself for anything else
ExpectedData(text) ==
    IF text = <<>> THEN Undef
    ELSE IF JsonParse(text).ok THEN JsonParse(text).value
    ELSE Str(text)

\* C17: the timer of a request is set to the timeoutMs of the call, else to the
\* default of the client (15000 unless configured); when it fires before the
\* body is read the request is aborted and the call fails with the timeout
\* error that names the path; a call that returns data has not seen its timer
\* fire.
C17_DeadlineAbortsAndFails ==
    /\ call.pc # "idle" =>
          call.delay = IF ~Nullish(call.options.timeoutMs) THEN call.options.timeoutMs.v
                       ELSE IF ~Nullish(call.config.defaultTimeoutMs)
                       THEN call.config.defaultTimeoutMs.v
                       ELSE 15000
    /\ call.timer = "fired" => call.aborted
    /\ call.timer = "fired" /\ Settling =>
          /\ call.pc = "thrown"
          /\ call.outcome.error.class = "Error"
          /\ call.outcome.error.message = "timed out."
          /\ call.outcome.error.pathname = UrlPathname(call.options.path)
    /\ call.pc = "returned" => call.timer = "cleared"

\* reached: the timer fired after a 2xx status had arrived and before the body
\* was read, and the call failed
C17_Witness ==
    /\ call.pc = "thrown"
    /\ call.timer = "fired"
    /\ call.response # Undef
    /\ ResponseOk(call.response.status)
    /\ call.options.timeoutMs = Undef
    /\ call.delay = 15000

\* C18: a request answered with a status outside 200..299 throws a
\* MonicaApiError that carries that status, the body (parsed, else as text) and
\* the x-request-id header, and that error is what the caller of the operation
\* gets.
C18_FailedStatusIsApiError ==
    BodyWasRead /\ ~ResponseOk(call.response.status) =>
        /\ call.pc = "thrown"
        /\ call.outcome.error.class = "MonicaApiError"
        /\ call.outcome.error.status = call.response.status
        /\ call.outcome.error.data = ExpectedData(call.text.v)
        /\ call.outcome.error.requestId = call.response.requestId
        /\ call.text.v = <<"<","h","t","m","l",">">> =>
              call.outcome.error.data = Str(<<"<","h","t","m","l",">">>)
        /\ call.text.v = <<"{","\"","a","\"",":","1","}">> =>
              call.outcome.error.data = Obj(<< <<(<<"a">>), Num(1)>> >>)

\* reached: a 404 with a body that is not JSON and a request id
C18_Witness ==
    /\ BodyWasRead
    /\ call.response.status = 404
    /\ call.response.requestId = Str(<<"r","1">>)
    /\ call.text.v = <<"<","h","t","m","l",">">>
    /\ call.pc = "thrown"

\* C19: a request answered with a status in 200..299 returns, whatever the
\* body: undefined for an empty body, the parsed value for JSON, the text for a
\* body that does not parse.
C19_OkStatusReturnsAnyBody ==
    BodyWasRead /\ ResponseOk(call.response.status) =>
        /\ call.pc = "returned"
        /\ call.outcome = Return(ExpectedData(call.text.v))
        /\ call.text.v = <<>> => call.outcome = Return(Undef)
        /\ call.text.v = <<"{","\"","a","\"",":">> =>
              call.outcome = Return(Str(<<"{","\"","a","\"",":">>))
        /\ call.text.v = <<"n","u","l","l">> => call.outcome = Return(Null)

\* reached: a 200 whose body is cut-off JSON has been returned as text
C19_Witness ==
    /\ BodyWasRead
    /\ call.response.status = 200
    /\ call.text.v = <<"{","\"","a","\"",":">>
    /\ call.pc = "returned"

\* the requests issued with a method
Issued(method) == SelectSeq(wire, LAMBDA r : r.method = method)

\* C20: a call of request calls fetch once, whatever comes of it; an update
\* issues its GET once and its PUT at most once; a resolver issues one request
\* for each page it visits and none twice.
C20_OneRequestPerCall ==
    /\ call.pc \notin {"off", "idle"} => Len(wire) = 1
    /\ \A i \in DOMAIN upd :
          upd[i].pc \notin {"off", "idle"} =>
              /\ Len(Issued("GET")) = 1
              /\ upd[i].pc = "awaitGet" => Len(Issued("PUT")) = 0
              /\ upd[i].pc \in {"awaitPut", "done"} => Len(Issued("PUT")) = 1
              /\ Len(Issued("PUT")) <= 1
              /\ Len(wire) <= 2
    /\ scan.pc \notin {"off", "idle"} =>
          /\ Len(wire) = scan.page
          /\ \A j, k \in 1..Len(wire) : j # k => wire[j].query.page # wire[k].query.page

\* reached: a call of request that ended on a failed connection after a status
\* had arrived
C20_Witness ==
    /\ call.pc = "thrown"
    /\ call.outcome.error = NetworkError
    /\ call.response # Undef
    /\ Len(wire) = 1


(***************************************************************************)
(* Properties of the client in use                                         *)
(***************************************************************************)
AuthHeaderNames == {"Authorization", "X-API-Key", "X-Auth-Token", "X-User-Token"}

\* the authentication headers of a request, by name
AuthHeaders(request) == {h \in request.headers : h[1] \in AuthHeaderNames}

\* C21: every request carries the authentication headers of the one scheme the
\* client was constructed with, and of no other: bearer sends Authorization
\* alone, apiKey X-API-Key alone, legacy X-Auth-Token and X-User-Token alone;
\* a legacy client without a user token is not constructed and sends nothing.
C21_OneSchemePerClient ==
    /\ call.pc = "unconstructed" =>
          /\ wire = <<>>
          /\ call.config.tokenType = "legacy"
          /\ call.config.userToken \in {Undef, Str(<<>>)}
    /\ call.pc \notin {"unconstructed", "off"} =>
          /\ call.config.tokenType = "legacy" => call.config.userToken = Str(sUser)
          /\ \A k \in 1..Len(wire) :
                AuthHeaders(wire[k]) =
                    CASE call.config.tokenType = "bearer" ->
                           {<<"Authorization", sBearer \o sSecret>>}
                      [] call.config.tokenType = "apiKey" ->
                           {<<"X-API-Key", sSecret>>}
                      [] call.config.tokenType = "legacy" ->
                           {<<"X-Auth-Token", sSecret>>, <<"X-User-Token", sUser>>}

\* reached: the second request of an apiKey client, after a first that failed
C21_Witness ==
    /\ call.config.tokenType = "apiKey"
    /\ Len(wire) = 2
    /\ call.pc = "thrown"
    /\ AuthHeaders(wire[1]) = AuthHeaders(wire[2])
    /\ AuthHeaders(wire[2]) # {}


(***************************************************************************)
(* Properties of what request logs                                         *)
(***************************************************************************)
IsTokenKey(key) == Includes(ToLowerCase(key), sToken)

\* every member under a token key, at any depth, holds the marker
RECURSIVE TokensRedacted(_)
TokensRedacted(value) ==
    IF value.t = "array"
    THEN \A k \in 1..Len(value.v) : TokensRedacted(value.v[k])
    ELSE IF value.t = "object"
    THEN \A k \in 1..Len(value.v) :
            IF IsTokenKey(value.v[k][1])
            THEN value.v[k][2] = Str(sRedacted)
            ELSE TokensRedacted(value.v[k][2])
    ELSE TRUE

\* the strings and numbers a value holds, at any depth
RECURSIVE Leaves(_)
Leaves(value) ==
    IF value.t \in {"array", "object"}
    THEN UNION {Leaves(IF value.t = "array" THEN value.v[k] ELSE value.v[k][2]) :
                   k \in 1..Len(value.v)}
    ELSE {value}

\* the strings and numbers a value holds under a token key, at any depth
RECURSIVE Secrets(_)
Secrets(value) ==
    IF value.t = "array"
    THEN UNION {Secrets(value.v[k]) : k \in 1..Len(value.v)}
    ELSE IF value.t = "object"
    THEN UNION {IF IsTokenKey(value.v[k][1])
                THEN Leaves(value.v[k][2])
                ELSE Secrets(value.v[k][2]) : k \in 1..Len(value.v)}
    ELSE {}

\* the values out of an answer that an entry of the log holds
Logged(entry) ==
    IF "body" \in DOMAIN entry THEN Leaves(entry.body) ELSE {}

\* C22: whatever a failed request logs, every member under a key that contains
\* "token" in any letter case, at any depth through objects and arrays, holds
\* the marker, and no value the answer held under such a key is in the log,
\* nor is the token of the client.
C22_NoTokenInLog ==
    call.pc = "thrown" =>
        \A k \in 1..Len(call.log) :
            /\ "body" \in DOMAIN call.log[k] => TokensRedacted(call.log[k].body)
            /\ BodyWasRead =>
                  Logged(call.log[k]) \cap Secrets(ExpectedData(call.text.v)) = {}
            /\ call.config.token \notin Logged(call.log[k])
            /\ "err" \in DOMAIN call.log[k] =>
                  DOMAIN call.log[k].err = {"class", "name", "message"}
            /\ DOMAIN call.log[k] \subseteq
                  {"level", "msg", "status", "requestId", "url", "body", "err"}

\* reached: a failed status whose body holds tokens inside an array and under
\* a key in capitals
C22_Witness ==
    /\ call.pc = "thrown"
    /\ BodyWasRead
    /\ call.text.v = sNested
    /\ call.response.status = 500
    /\ Len(call.log) = 1
    /\ Secrets(ExpectedData(sNested)) = {Str(<<"s">>)}
    /\ Num(7) \in Logged(call.log[1])

\* C25 as stated: every failed request leaves exactly one entry in the log
\* before its error is raised, a warning for a failed status and an error
\* entry for a timeout and for any other exception, and an exception that is
\* neither is raised as the value that was caught.
C25_EveryFailureLoggedOnce ==
    call.pc = "thrown" =>
        /\ Len(call.log) = 1
        /\ call.outcome.error.class = "MonicaApiError" => call.log[1].level = "warn"
        /\ call.outcome.error.class # "MonicaApiError" => call.log[1].level = "error"
        /\ call.outcome.error.class \notin {"MonicaApiError", "Error"} =>
              /\ call.outcome.error = NetworkError
              /\ call.log[1].err = call.outcome.error

MergeRefused(i) ==
    /\ upd[i].pc = "failed"
    /\ "class" \in DOMAIN upd[i].outcome
    /\ IsValidationError(upd[i].outcome)

\* a resolver has failed for want of an identifier and a name
ResolverRefused == scan.pc = "failed" /\ IsProvideError(scan.outcome)

\* the arguments of the operation called are not enough
ArgumentsShort ==
    /\ call.operation # Undef
    /\ \/ /\ call.operation.name \in {"createActivity", "updateActivity"}
          /\ call.operation.args.contactIds = Arr(<<>>)
       \/ /\ call.operation.name \in {"addresses", "contactfields"}
          /\ call.operation.args.contactId = Undef

\* an operation has failed on the check of its arguments
OperationRefused ==
    /\ call.pc = "thrown"
    /\ call.outcome.error.class = "Error"
    /\ call.outcome.error.message \in
          {"Provide at least one contact ID when creating or updating an activity.",
           "contactId is required when listing addresses.",
           "contactId is required when listing contact fields."}

\* C23 as stated: a validation error of a resolver, of a merge, of an activity
\* body or of a list of one contact is raised before the invocation has issued
\* any request.
C23_ValidationBeforeAnyRequest ==
    /\ ResolverRefused => wire = <<>>
    /\ OperationRefused => wire = <<>>
    /\ \A i \in DOMAIN upd : MergeRefused(i) => wire = <<>>

\* C23 (amended): a resolver given neither identifier nor name (but for gender
\* and country), an activity body without contacts and a list of addresses or
\* contact fields without a contact fail with a validation error before any
\* request; a merge fails with one after the GET of its invocation, its only
\* request, and before any PUT.
C23_ValidationBeforeRequestOrWrite ==
    /\ ResolverRefused => wire = <<>>
    /\ scan.pc # "off" /\ NothingGiven /\ catalog.kind \notin {"gender", "country"} =>
          ResolverRefused
    /\ OperationRefused => wire = <<>>
    /\ ArgumentsShort <=> OperationRefused
    /\ \A i \in DOMAIN upd :
          MergeRefused(i) =>
              /\ Len(wire) = 1
              /\ wire[1].method = "GET"
              /\ wire[1].path = <<Collection(entity), upd[i].id>>

\* reached: an update of a reminder refused by its merge, after its GET
C23_Witness ==
    /\ MergeRefused(1)
    /\ entity = "reminder"
    /\ Len(wire) = 1


\* C27 as stated: a list operation with an optional contact requests
\* contacts/<id>/<kind> when a contact was given and <kind> when none was,
\* whatever the status, the limit, the page and the identifier itself are.
C27_NestedExactlyWithContact ==
    call.operation # Undef /\ call.operation.name \in ListKinds =>
        wire[Len(wire)].path =
            UrlPathname(IF call.operation.args.contactId # Undef
                        THEN NestedPath(call.operation.args.contactId,
                                        call.operation.name)
                        ELSE <<call.operation.name>>)

(***************************************************************************)
(* Properties of the tool handlers                                         *)
(***************************************************************************)
\* the resolver called by the tool has thrown an error of its own, not one of
\* a request
ResolverRaised ==
    /\ scan.pc = "failed"
    /\ scan.outcome.error \notin TransportErrors

\* C24 as stated: when the resolver a tool calls raises a validation or a
\* resolution error, the handler of the tool returns a failure result with the
\* message of the error; the error does not leave the handler.
C24_HandlerCatchesResolverErrors ==
    tool.pc \notin {"idle", "resolving"} /\ ResolverRaised =>
        /\ tool.pc = "returned"
        /\ tool.result = FailureResult(scan.outcome.error)


(***************************************************************************)
(* Properties of invocations that follow or interleave each other          *)
(***************************************************************************)
\* the pages of the catalog on which an invocation finds a match
MatchPagesOf(s) ==
    {q \in 1..LastPage(catalog) :
        Find(catalog.kind, ListResponse(catalog, q).data, s.target) # 0}

\* the suggestions an invocation has collected when it has read pages 1..q
RECURSIVE SuggestionsUpTo(_, _)
SuggestionsUpTo(s, q) ==
    IF q = 0 THEN IdleScan.suggestions
    ELSE CollectSuggestions(SuggestionsUpTo(s, q - 1),
                            ListResponse(catalog, q).data, s.target)

\* what an invocation of a resolver comes to when it runs alone, from its
\* arguments and the pages of the catalog
OwnResult(s) ==
    /\ s.pc = "awaitPage" =>
          /\ s.page <= LastPage(catalog)
          /\ \A q \in MatchPagesOf(s) : q >= s.page
    /\ s.pc = "done" =>
          /\ MatchPagesOf(s) # {}
          /\ s.page = SetMin(MatchPagesOf(s))
          /\ LET data == ListResponse(catalog, s.page).data
             IN  s.outcome = Return(data[Find(catalog.kind, data, s.target)].id)
    /\ s.pc = "failed" /\ s.outcome.error \notin TransportErrors =>
          /\ MatchPagesOf(s) = {}
          /\ s.page = LastPage(catalog)
          /\ s.outcome.error =
                NoMatchError(catalog.kind, s.args,
                             SuggestionsUpTo(s, LastPage(catalog)))

\* the number of requests on the wire for page q
RequestsFor(q) == Cardinality({k \in 1..Len(wire) : wire[k].query.page = q})

\* each invocation has requested the pages 1 to its own page, once each
PrivatePages ==
    \A q \in 1..(LastPage(catalog) + 1) :
        RequestsFor(q) = (IF scan.page >= q THEN 1 ELSE 0)
                         + (IF other.page >= q THEN 1 ELSE 0)

\* the request and the result of the call of request under way, from the
\* options of the client and the arguments and the answer of this call
OwnRequest ==
    /\ call.pc \notin {"idle", "off", "unconstructed"} =>
          /\ wire[Len(wire)].method = call.options.method
          /\ wire[Len(wire)].path = UrlPathname(call.options.path)
          /\ wire[Len(wire)].headers = buildHeaders(call.config, Undef, FALSE)
          /\ call.delay = Coalesce(call.options.timeoutMs, call.defaultTimeoutMs).v
    /\ call.pc = "returned" => call.outcome = Return(ExpectedData(call.text.v))
    /\ call.pc = "thrown" /\ BodyWasRead =>
          /\ call.outcome.error.status = call.response.status
          /\ call.outcome.error.data = ExpectedData(call.text.v)
    /\ call.pc = "thrown" => Len(call.log) <= 1

\* C26: the options a client was constructed with are the same after every
\* step, failed calls included; a call of request that follows other calls
\* sends and returns what its own arguments and its own answer determine; of
\* two invocations of a resolver that interleave, each requests its own pages
\* 1, 2, ... and comes to the result it comes to alone.
C26_InvocationsIndependent ==
    /\ [](call.pc # "off" => OwnRequest)
    /\ [](other.pc # "off" => PrivatePages /\ OwnResult(scan) /\ OwnResult(other))
    /\ [][/\ call'.config = call.config
          /\ call'.defaultTimeoutMs = call.defaultTimeoutMs]_vars

\* reached: two invocations at once, one on page 2 after a failure of the other
\* on page 1, which had begun first
C26_Witness ==
    /\ other.pc = "failed"
    /\ other.page = 1
    /\ other.outcome.error \in TransportErrors
    /\ scan.pc = "done"
    /\ scan.page = 2
    /\ Len(wire) = 3
    /\ wire[1].query.page = 1
    /\ wire[2].query.page = 1

\* C28: when the request for a page fails, the resolver fails with the error
\* of the request, not with a no-match error and not with a value, and issues
\* no request after it; a scan that has failed stays as it is.
C28_PageFailureEndsScan ==
    [][/\ (scan.pc = "awaitPage" /\ scan' # scan /\ scan'.last = scan.last) =>
             /\ scan'.pc = "failed"
             /\ scan'.outcome.error \in TransportErrors
             /\ DOMAIN scan'.outcome = {"ok", "error"}
             /\ scan'.page = scan.page
             /\ scan'.suggestions = scan.suggestions
             /\ wire' = wire
             /\ Len(wire) = scan.page
       /\ scan.pc = "failed" => scan' = scan /\ wire' = wire]_vars

\* reached: a scan that read page 1 without a match and failed on page 2
C28_Witness ==
    /\ scan.pc = "failed"
    /\ scan.outcome.error \in TransportErrors
    /\ PageSeen
    /\ scan.last.meta.current_page = 1
    /\ scan.page = 2
    /\ Len(wire) = 2

\* the counts of a scan: never more requests than pages; a match on page m ends
\* it after m requests, no match after as many requests as there are pages; it
\* ends on a match, on an error of a request, or on a page that reports
\* current_page >= last_page
ScanCounts ==
    Len(wire) >= 1 =>
        /\ Len(wire) <= LastPage(catalog)
        /\ scan.pc = "done" =>
              /\ MatchPagesOf(scan) # {}
              /\ Len(wire) = SetMin(MatchPagesOf(scan))
        /\ scan.pc = "failed" /\ scan.outcome.error \notin TransportErrors =>
              /\ MatchPagesOf(scan) = {}
              /\ Len(wire) = LastPage(catalog)
              /\ scan.last.meta.current_page >= scan.last.meta.last_page
        /\ scan.pc = "awaitPage" /\ PageSeen =>
              /\ scan.last.meta.current_page < scan.last.meta.last_page
              /\ Find(catalog.kind, scan.last.data, scan.target) = 0

\* C29: with every page p reporting current_page = p and the same last_page
\* L >= 1, a scan ends: every answer to a request either ends it or moves it
\* on by one page, and it never requests more than L pages; it has issued
\* exactly L requests when it ends without a match, exactly m when page m is
\* the first with one; it leaves its loop only on a match, on an error or on a
\* page with current_page >= last_page.
C29_ScanEndsAfterItsPages ==
    /\ []ScanCounts
    /\ [][scan.pc = "awaitPage" /\ scan' # scan =>
             \/ scan'.pc \in {"done", "failed"} /\ wire' = wire
             \/ /\ scan'.pc = "awaitPage"
                /\ scan'.page = scan.page + 1
                /\ scan'.page <= LastPage(catalog)
                /\ wire' = Append(wire, ListRequest(catalog.kind, scan'.page))]_vars

\* reached: a scan of three pages that ended on the third without a match
C29_Witness ==
    /\ scan.pc = "failed"
    /\ PageSeen
    /\ LastPage(catalog) = 3
    /\ Len(wire) = 3
    /\ MatchPagesOf(scan) = {}
    /\ scan.outcome.error \notin TransportErrors

====
